---- MODULE Spec2Model ----
(***************************************************************************)
(* A model of dwarf2cpp's reconstruction engine: the Visitor that walks a  *)
(* DWARF DIE graph and builds model objects (src/dwarf2cpp/visitor.py),    *)
(* the objects' equality and merge (src/dwarf2cpp/models.py) and the file  *)
(* assembly done by the generator Visitor.files.                           *)
(*                                                                         *)
(* Python objects are mutable and shared by reference, so the model keeps  *)
(* a heap (a sequence of records, an object's identity being its index)    *)
(* and every container holds identities.  A handler is an operator from a  *)
(* visitor state (the record VisState) to a visitor state; the actions are *)
(* the iterations of the loops of Visitor.files.                           *)
(***************************************************************************)
EXTENDS Integers, Sequences, FiniteSets, TLC

VARIABLES
    dies,           \* DWARFContext: the DIE graph, DIE identity -> DIE
    type_units,     \* DWARFContext.types_section_units (unit DIE identities)
    compile_units,  \* DWARFContext.compile_units (unit DIE identities)
    objects,        \* Visitor._objects: DIE identity -> object identity, 0 absent
    heap,           \* the objects built so far, object identity -> fields
    files,          \* Visitor._files, in insertion order
    param_names,    \* Visitor._param_names, in insertion order
    functions,      \* Visitor._functions
    error,          \* the exception that ended the run, NoError if none
    pc,             \* position in Visitor.files
    tu,             \* index of the next type unit
    cu,             \* index of the next compile unit
    fi,             \* index of the next file of _files
    yielded,        \* the relative paths yielded so far
    visitLog,       \* history: the DIEs whose handler was entered, in order
    addLog,         \* history: the calls of _add, in order
    pre,            \* history: the heap before the last direct merge call
    ret,            \* history: what the last direct merge call returned
    normaliser,     \* the Name Normaliser running: "cleanup", "do_type_cleanup"
    content,        \* cleanup: content (do_type_cleanup: type_name)
    output,         \* cleanup: output, the string the current pass works on
    rule,           \* index in pattern_repl of the next rule of the pass
    cpc,            \* position in the Name Normaliser
    results,        \* history: the strings the calls returned, in order
    templates,      \* Visitor._templates: (key, lineno) -> Templates
    requests,       \* the direct calls of _register_template to make
    registered,     \* history: what the calls made returned, 0 for None
    prev,           \* do_ns_actions: prev, the chain of the last declaration
    curr,           \* do_ns_actions: curr, the chain of this declaration
    actions,        \* what do_ns_actions returned
    stack,          \* history: the namespaces open as the actions are applied
    applied,        \* history: how many of the actions have been applied
    fpc             \* position in the namespace filters

\* The variables of the Name Normaliser.
cleanVars == <<normaliser, content, output, rule, cpc, results>>

\* The variables of the Visitor and of direct merge calls.
visitorVars ==
    <<dies, type_units, compile_units, objects, heap, files, param_names,
      functions, error, pc, tu, cu, fi, yielded, visitLog, addLog, pre, ret>>

\* The variables of direct calls of _register_template.
templateVars == <<templates, requests, registered>>

\* The variables of the namespace filters.
filterVars == <<prev, curr, actions, stack, applied, fpc>>

vars == <<dies, type_units, compile_units, objects, heap, files, param_names,
          functions, error, pc, tu, cu, fi, yielded, visitLog, addLog, pre, ret,
          normaliser, content, output, rule, cpc, results,
          templates, requests, registered,
          prev, curr, actions, stack, applied, fpc>>

-----------------------------------------------------------------------------
(* Python values *)

\* Python's None, kept a string so that it compares with names and types.
None == "<None>"

NoError == "none"

\* bool(x) of an optional string: None and "" are falsy.
Truthy(x) == x # None /\ x # ""

\* `a or b` on optional strings.
PyOr(a, b) == IF Truthy(a) THEN a ELSE b

\* f"{x}" of an optional string: None is formatted as the text None.
Fmt(x) == IF x = None THEN "None" ELSE x

\* str.startswith
StartsWith(s, p) == Len(s) >= Len(p) /\ SubSeq(s, 1, Len(p)) = p

\* s.split("<", maxsplit=1)[0]: the text before the first "<", all of s
\* when it holds none.
BeforeAngle(s) ==
    IF \E i \in 1..Len(s) : SubSeq(s, i, i) = "<"
    THEN LET first == CHOOSE i \in 1..Len(s) :
                         /\ SubSeq(s, i, i) = "<"
                         /\ \A j \in 1..(i - 1) : SubSeq(s, j, j) # "<"
         IN  SubSeq(s, 1, first - 1)
    ELSE s

\* The index of key k in an insertion-ordered dict (a sequence of records
\* with a field key), 0 when absent.
DictIndex(d, k) ==
    IF \E i \in 1..Len(d) : d[i].key = k
    THEN CHOOSE i \in 1..Len(d) : d[i].key = k
    ELSE 0

-----------------------------------------------------------------------------
(* models.py: the objects *)

\* An empty dict.
EmptyMap == [k \in {} |-> <<>>]

POSITIONAL == "positional"
VARIADIC == "variadic"

PUBLIC == "public"
PROTECTED == "protected"
PRIVATE == "private"

StructKinds == {"struct", "class", "union"}

\* Parameter(name, type, kind)
Parameter(name, type, kind) == [name |-> name, type |-> type, kind |-> kind]

\* Namespace(name=...): models.py gives it no other field than these.
NewNamespace(name, die) ==
    [kind |-> "namespace", name |-> name, parent |-> 0, is_inline |-> FALSE,
     die |-> die]

\* Function(name=..., returns=..., is_const=...), the other fields at their
\* dataclass defaults.  die is history: the DIE the object was built from.
NewFunction(name, returns, is_const, die) ==
    [kind |-> "function", name |-> name, parent |-> 0, is_implicit |-> FALSE,
     is_declaration |-> FALSE, access |-> None, template |-> 0,
     parameters |-> <<>>, returns |-> returns, noreturn |-> FALSE,
     is_explicit |-> FALSE, is_deleted |-> FALSE, is_inline |-> FALSE,
     is_static |-> FALSE, is_const |-> is_const, virtuality |-> None,
     die |-> die]

\* Attribute(name=...)
NewAttribute(name, die) ==
    [kind |-> "attribute", name |-> name, parent |-> 0, is_implicit |-> FALSE,
     is_declaration |-> FALSE, access |-> None, template |-> 0,
     type |-> None, default_value |-> None, alignment |-> None,
     bit_size |-> None, is_static |-> FALSE, die |-> die]

\* Struct(name=...), Class(name=...), Union(name=...): members is the
\* defaultdict line -> list, a function whose domain is the lines touched.
NewStruct(kind, name, die) ==
    [kind |-> kind, name |-> name, parent |-> 0, is_implicit |-> FALSE,
     is_declaration |-> FALSE, access |-> None, template |-> 0,
     bases |-> <<>>, members |-> EmptyMap, alignment |-> None, die |-> die]

\* Enum(name=...)
NewEnum(name, die) ==
    [kind |-> "enum", name |-> name, parent |-> 0, is_implicit |-> FALSE,
     is_declaration |-> FALSE, access |-> None, template |-> 0,
     base |-> None, values |-> <<>>, is_class |-> FALSE, die |-> die]

\* ImportedModule(name="", import_=...), ImportedDeclaration(name=...,
\* import_=...): import_ is a Namespace of the heap or a type name.
NewImported(kind, name, import_, die) ==
    [kind |-> kind, name |-> name, parent |-> 0, is_implicit |-> FALSE,
     is_declaration |-> FALSE, access |-> None, template |-> 0,
     import_ |-> import_, die |-> die]

\* TemplateParameter(name=..., kind=..., type=..., arg=...)
TemplateParameter(name, kind, type, arg) ==
    [name |-> name, kind |-> kind, type |-> type, arg |-> arg,
     default |-> None]

\* Template(name="", declaration=..., parameters=...)
NewTemplate(declaration, parameters) ==
    [kind |-> "template", name |-> "", parent |-> 0, is_implicit |-> FALSE,
     is_declaration |-> FALSE, access |-> None, template |-> 0,
     declaration |-> declaration, parameters |-> parameters, die |-> 0]

\* defaultdict access d[k]: the entry is created empty when missing.
Touch(d, k) == IF k \in DOMAIN d THEN d ELSE d @@ (k :> <<>>)

\* Namespace.qualified_name
RECURSIVE qualified_name(_, _)
qualified_name(h, n) ==
    IF h[n].parent = 0
    THEN PyOr(h[n].name, "")
    ELSE qualified_name(h, h[n].parent) \o "::" \o Fmt(h[n].name)

-----------------------------------------------------------------------------
(* models.py: equality.  A dataclass compares the class and then every     *)
(* field but those declared compare=False (parent, template).              *)

RECURSIVE ObjEq(_, _, _)
ObjEq(h, a, b) ==
    LET x == h[a]
        y == h[b]
        head == /\ x.name = y.name
                /\ x.is_implicit = y.is_implicit
                /\ x.is_declaration = y.is_declaration
                /\ x.access = y.access
    IN  \/ a = b
        \/ /\ x.kind = y.kind
           /\ x.kind = "function"
           /\ head
           /\ x.parameters = y.parameters
           /\ x.returns = y.returns
           /\ x.noreturn = y.noreturn
           /\ x.is_explicit = y.is_explicit
           /\ x.is_deleted = y.is_deleted
           /\ x.is_inline = y.is_inline
           /\ x.is_static = y.is_static
           /\ x.is_const = y.is_const
           /\ x.virtuality = y.virtuality
        \/ /\ x.kind = y.kind
           /\ x.kind = "attribute"
           /\ head
           /\ x.type = y.type
           /\ x.default_value = y.default_value
           /\ x.alignment = y.alignment
           /\ x.bit_size = y.bit_size
           /\ x.is_static = y.is_static
        \/ /\ x.kind = y.kind
           /\ x.kind = "enum"
           /\ head
           /\ x.base = y.base
           /\ x.values = y.values
           /\ x.is_class = y.is_class
        \/ /\ x.kind = y.kind
           /\ x.kind \in {"imported_module", "imported_declaration"}
           /\ head
           /\ x.import_ = y.import_
        \/ /\ x.kind = y.kind
           /\ x.kind \in StructKinds
           /\ head
           /\ x.bases = y.bases
           /\ DOMAIN x.members = DOMAIN y.members
           /\ \A l \in DOMAIN x.members :
                 /\ Len(x.members[l]) = Len(y.members[l])
                 /\ \A i \in 1..Len(x.members[l]) :
                       ObjEq(h, x.members[l][i], y.members[l][i])
           /\ x.alignment = y.alignment

\* `item in result` of a list: some element is the item or equals it.
In(h, item, result) == \E i \in 1..Len(result) : ObjEq(h, result[i], item)

-----------------------------------------------------------------------------
(* models.py: merge.  Each operator returns [ok, heap]: what merge returns *)
(* and the heap it leaves.                                                 *)

\* The first loop of Function.merge: the parameters agree in type and kind.
ParamsMatch(ps, qs) ==
    \A i \in 1..Len(ps) : ps[i].type = qs[i].type /\ ps[i].kind = qs[i].kind

\* Mutation of FillNames: the other side's name wins.
FillNamesFromOther(ps, qs) ==
    [i \in 1..Len(ps) |-> [ps[i] EXCEPT !.name = PyOr(qs[i].name, ps[i].name)]]

\* The second loop of Function.merge: p1.name = p1.name or p2.name
FillNames(ps, qs) ==
    [i \in 1..Len(ps) |-> [ps[i] EXCEPT !.name = PyOr(ps[i].name, qs[i].name)]]

\* Function.merge
FunctionMerge(h, a, b) ==
    LET x == h[a]
        y == h[b]
    IN  IF y.kind # "function"
        THEN [ok |-> FALSE, heap |-> h]
        ELSE IF \/ x.name # y.name
                \/ x.returns # y.returns
                \/ Len(x.parameters) # Len(y.parameters)
        THEN [ok |-> FALSE, heap |-> h]
        ELSE IF ~ParamsMatch(x.parameters, y.parameters)
        THEN [ok |-> FALSE, heap |-> h]
        ELSE [ok |-> TRUE,
              heap |-> [h EXCEPT ![a] =
                 [x EXCEPT !.parameters = FillNames(x.parameters, y.parameters),
                           !.noreturn = x.noreturn \/ y.noreturn,
                           !.is_explicit = x.is_explicit \/ y.is_explicit,
                           !.is_deleted = x.is_deleted \/ y.is_deleted,
                           !.is_inline = x.is_inline \/ y.is_inline,
                           !.is_static = x.is_static \/ y.is_static,
                           !.is_const = x.is_const \/ y.is_const,
                           !.virtuality = PyOr(x.virtuality, y.virtuality)]]]

\* Mutation of AttributeMerge: the alignment is taken before the names and
\* types are compared.
AttributeMergeEager(h, a, b) ==
    LET x == h[a]
        y == h[b]
        h1 == [h EXCEPT ![a].alignment = PyOr(x.alignment, y.alignment)]
    IN  IF y.kind # "attribute"
        THEN [ok |-> FALSE, heap |-> h]
        ELSE IF x.name # y.name \/ x.type # y.type
        THEN [ok |-> FALSE, heap |-> h1]
        ELSE [ok |-> TRUE,
              heap |-> [h1 EXCEPT ![a] =
                 [h1[a] EXCEPT !.default_value =
                               IF x.default_value = None
                               THEN y.default_value ELSE x.default_value,
                           !.bit_size = PyOr(x.bit_size, y.bit_size),
                           !.is_static = x.is_static \/ y.is_static]]]

\* Attribute.merge
AttributeMerge(h, a, b) ==
    LET x == h[a]
        y == h[b]
    IN  IF y.kind # "attribute"
        THEN [ok |-> FALSE, heap |-> h]
        ELSE IF x.name # y.name \/ x.type # y.type
        THEN [ok |-> FALSE, heap |-> h]
        ELSE [ok |-> TRUE,
              heap |-> [h EXCEPT ![a] =
                 [x EXCEPT !.default_value =
                               IF x.default_value = None
                               THEN y.default_value ELSE x.default_value,
                           !.alignment = PyOr(x.alignment, y.alignment),
                           !.bit_size = PyOr(x.bit_size, y.bit_size),
                           !.is_static = x.is_static \/ y.is_static]]]

RECURSIVE Merge(_, _, _), ReduceFrom(_, _, _, _), StructMergeLines(_, _, _, _)

\* The reduction loop shared by Visitor.files and Struct.merge, from item i
\* on: an item equal to an accepted one is dropped, an item the last accepted
\* one absorbs is dropped, any other item is accepted.
ReduceFrom(h, items, i, result) ==
    IF i > Len(items)
    THEN [heap |-> h, result |-> result]
    ELSE LET item == items[i] IN
         IF result = <<>>
         THEN ReduceFrom(h, items, i + 1, <<item>>)
         ELSE IF In(h, item, result)
         THEN ReduceFrom(h, items, i + 1, result)
         ELSE LET m == Merge(h, result[Len(result)], item) IN
              IF m.ok
              THEN ReduceFrom(m.heap, items, i + 1, result)
              ELSE ReduceFrom(m.heap, items, i + 1, Append(result, item))

\* Mutation of Reduce: equal items are dropped but no merge is attempted.
ReduceWithoutMerge(h, items) ==
    LET keep == {i \in 1..Len(items) :
                    \A j \in 1..(i - 1) : ~ObjEq(h, items[j], items[i])}
    IN  [heap |-> h,
         result |-> [n \in 1..Cardinality(keep) |->
                        items[CHOOSE i \in keep :
                                Cardinality({j \in keep : j <= i}) = n]]]

\* result = []; for item in objects: ...
Reduce(h, items) == ReduceFrom(h, items, 1, <<>>)

\* The loop of Struct.merge over other.members.items(), the lines still to
\* do being todo.
StructMergeLines(h, a, b, todo) ==
    IF todo = {}
    THEN h
    ELSE LET lineno == CHOOSE l \in todo : \A k \in todo : l <= k
             mine == Touch(h[a].members, lineno)
             r == Reduce(h, mine[lineno] \o h[b].members[lineno])
             h2 == [r.heap EXCEPT ![a].members =
                        [Touch(r.heap[a].members, lineno)
                            EXCEPT ![lineno] = r.result]]
         IN  StructMergeLines(h2, a, b, todo \ {lineno})

\* Mutation of StructMerge: the base lists are not compared.
StructMergeAnyBases(h, a, b) ==
    LET x == h[a]
        y == h[b]
    IN  IF y.kind \notin StructKinds
        THEN [ok |-> FALSE, heap |-> h]
        ELSE IF x.kind # y.kind \/ x.name # y.name
        THEN [ok |-> FALSE, heap |-> h]
        ELSE LET h2 == StructMergeLines(h, a, b, DOMAIN y.members)
             IN  [ok |-> TRUE,
                  heap |-> [h2 EXCEPT ![a].alignment =
                               PyOr(h2[a].alignment, h2[b].alignment)]]

\* Struct.merge
StructMerge(h, a, b) ==
    LET x == h[a]
        y == h[b]
    IN  IF y.kind \notin StructKinds
        THEN [ok |-> FALSE, heap |-> h]
        ELSE IF x.kind # y.kind \/ x.name # y.name \/ x.bases # y.bases
        THEN [ok |-> FALSE, heap |-> h]
        ELSE LET h2 == StructMergeLines(h, a, b, DOMAIN y.members)
             IN  [ok |-> TRUE,
                  heap |-> [h2 EXCEPT ![a].alignment =
                               PyOr(h2[a].alignment, h2[b].alignment)]]

\* self.declaration != other.declaration: both None, or equal objects
DeclarationsDiffer(h, a, b) ==
    IF a = 0 \/ b = 0 THEN a # b ELSE ~ObjEq(h, a, b)

\* Template.merge
TemplateMerge(h, a, b) ==
    LET x == h[a]
        y == h[b]
    IN  IF y.kind # "template"
        THEN [ok |-> FALSE, heap |-> h]
        ELSE IF \/ x.name # y.name
                \/ DeclarationsDiffer(h, x.declaration, y.declaration)
                \/ Len(x.parameters) # Len(y.parameters)
        THEN [ok |-> FALSE, heap |-> h]
        ELSE IF \E i \in 1..Len(x.parameters) :
                   \/ x.parameters[i].name # y.parameters[i].name
                   \/ x.parameters[i].kind # y.parameters[i].kind
                   \/ x.parameters[i].type # y.parameters[i].type
                   \/ x.parameters[i].arg # None
                   \/ y.parameters[i].arg # None
        THEN [ok |-> FALSE, heap |-> h]
        ELSE [ok |-> TRUE,
              heap |-> [h EXCEPT ![a].parameters =
                           [i \in 1..Len(x.parameters) |->
                               [x.parameters[i] EXCEPT !.default =
                                   PyOr(@, y.parameters[i].default)]]]]

\* a.merge(b), dispatched on the class of a; Object.merge returns False.
Merge(h, a, b) ==
    IF h[a].kind = "function" THEN FunctionMerge(h, a, b)
    ELSE IF h[a].kind = "attribute" THEN AttributeMerge(h, a, b)
    ELSE IF h[a].kind \in StructKinds THEN StructMerge(h, a, b)
    ELSE IF h[a].kind = "template" THEN TemplateMerge(h, a, b)
    ELSE [ok |-> FALSE, heap |-> h]

-----------------------------------------------------------------------------
(* The DWARF access library (consumed): the DIE graph.  A DIE is a record  *)
(* of what the library's accessors return for it:                          *)
(*   tag, short_name, linkage_name, decl_file, decl_line, parent, children,*)
(*   unit (the unit DIE; the unit's is_type_unit is that DIE's tag),       *)
(*   comp_dir (a unit's compilation_dir),                                  *)
(*   spec, signature (the DIEs DW_AT_specification and DW_AT_signature     *)
(*   refer to, 0 when absent), external, artificial (attribute present),   *)
(*   object_pointer ("absent", or whether the type chain of the DIE that   *)
(*   DW_AT_object_pointer refers to reaches a DW_TAG_const_type: "const",  *)
(*   "plain"), accessibility, virtuality, inline (the decoded constants,   *)
(*   None when absent), alignment, type (the text _resolve_type renders for*)
(*   DW_AT_type, None when absent), attrs (the names of the DIE's other    *)
(*   attributes) and params (its DW_TAG_formal_parameter children that are *)
(*   not artificial and its DW_TAG_unspecified_parameters children, in     *)
(*   order: these are read in place and never visited).                    *)

\* Visitor._base_dir, the command line's base directory.
BaseDir == "/b"

Die == [tag |-> "", short_name |-> None, linkage_name |-> None, unit |-> 0,
        parent |-> 0, children |-> <<>>, decl_file |-> None, decl_line |-> 0,
        comp_dir |-> None, spec |-> 0, signature |-> 0, external |-> FALSE,
        artificial |-> FALSE, object_pointer |-> "absent",
        accessibility |-> None, virtuality |-> None, inline |-> None,
        alignment |-> None, type |-> None, attrs |-> {}, params |-> <<>>,
        import |-> 0, const_value |-> None]

\* The names of the attributes die.attributes yields.
AttrNames(d) ==
    LET die == dies[d] IN
    die.attrs
      \cup (IF die.short_name # None THEN {"DW_AT_name"} ELSE {})
      \cup (IF die.linkage_name # None THEN {"DW_AT_linkage_name"} ELSE {})
      \cup (IF die.decl_file # None THEN {"DW_AT_decl_file"} ELSE {})
      \cup (IF die.decl_line # 0 THEN {"DW_AT_decl_line"} ELSE {})
      \cup (IF die.spec # 0 THEN {"DW_AT_specification"} ELSE {})
      \cup (IF die.signature # 0 THEN {"DW_AT_signature"} ELSE {})
      \cup (IF die.external THEN {"DW_AT_external"} ELSE {})
      \cup (IF die.artificial THEN {"DW_AT_artificial"} ELSE {})
      \cup (IF die.object_pointer # "absent" THEN {"DW_AT_object_pointer"} ELSE {})
      \cup (IF die.accessibility # None THEN {"DW_AT_accessibility"} ELSE {})
      \cup (IF die.virtuality # None THEN {"DW_AT_virtuality"} ELSE {})
      \cup (IF die.inline # None THEN {"DW_AT_inline"} ELSE {})
      \cup (IF die.alignment # None THEN {"DW_AT_alignment"} ELSE {})
      \cup (IF die.type # None THEN {"DW_AT_type"} ELSE {})
      \cup (IF die.import # 0 THEN {"DW_AT_import"} ELSE {})
      \cup (IF die.const_value # None THEN {"DW_AT_const_value"} ELSE {})

\* die.resolve_type_unit_reference(): the definition in a type unit that the
\* DIE's signature names, the DIE itself when it has none.
ResolveTypeUnitReference(d) ==
    IF dies[d].signature # 0 THEN dies[d].signature ELSE d

\* path.replace("\\", "/") on the paths of the model: the one path written
\* with backslashes gets slashes.
Slashes(p) == IF p = "\\b\\w" THEN "/b/w" ELSE p

\* posixpath.normpath on the paths of the model: the one path with a ".."
\* component loses it.
NormPath(p) == IF p = "/b/../o/w.h" THEN "/o/w.h" ELSE p

\* posixpath.relpath(path, base_dir) for a normalised absolute path and the
\* one-component base directory: the rest of a path under base_dir, and a
\* climb out of it for any other path.
RelPath(p) ==
    IF p = BaseDir THEN "."
    ELSE IF StartsWith(p, BaseDir \o "/")
    THEN SubSeq(p, Len(BaseDir) + 2, Len(p))
    ELSE "../" \o SubSeq(p, 2, Len(p))

\* DWARFTypePrinter.append_scopes(die.parent): the names of the enclosing
\* scopes, outermost first, each followed by "::"; a unit ends the walk.
RECURSIVE Scopes(_)
Scopes(d) ==
    IF d = 0 \/ dies[d].tag \in {"compile_unit", "type_unit"}
    THEN ""
    ELSE Scopes(dies[d].parent) \o Fmt(dies[d].short_name) \o "::"

\* append_scopes(spec.parent); append_unqualified_name(spec); str(printer)
ScopedName(d) == Scopes(dies[d].parent) \o Fmt(dies[d].short_name)

-----------------------------------------------------------------------------
(* visitor.py: the Visitor's state and its small methods *)

\* The fields of the Visitor that the handlers read and write.
VisState ==
    [objects |-> objects, heap |-> heap, files |-> files,
     param_names |-> param_names, functions |-> functions, error |-> error,
     visitLog |-> visitLog, addLog |-> addLog]

\* raise: the exception ends the run, the state staying as it is.
Fail(v, e) == [v EXCEPT !.error = e]

\* A Visitor whose _get finds nothing.
GetNothing(v, d) == 0

\* Visitor._get
Get(v, d) == v.objects[d]

\* Mutation of Set: the cache keeps the entries of one unit only.
SetEvicting(v, d, o) ==
    [v EXCEPT !.objects = [k \in DOMAIN @ |->
                              IF k = d THEN o
                              ELSE IF dies[k].unit = dies[d].unit THEN @[k]
                              ELSE 0]]

\* Visitor._set
Set(v, d, o) ==
    IF v.objects[d] # 0
    THEN Fail(v, "AssertionError")
    ELSE [v EXCEPT !.objects[d] = o]

\* Construction of an object: it takes the next identity of the heap.
Alloc(v, rec) == [v EXCEPT !.heap = Append(@, rec)]
Fresh(v) == Len(v.heap) + 1

\* The threshold of Visitor._add.
FileBucketCap == 8

\* The threshold of the members bucket in Visitor._handle_struct.
MemberBucketCap == 4

\* Mutation of Add: the bucket is closed one object late.
AddPastCap(v, filepath, lineno, obj) ==
    LET fs0 == IF DictIndex(v.files, filepath) = 0
               THEN Append(v.files, [key |-> filepath, lines |-> <<>>])
               ELSE v.files
        k == DictIndex(fs0, filepath)
        fs1 == IF DictIndex(fs0[k].lines, lineno) = 0
               THEN [fs0 EXCEPT ![k].lines =
                        Append(@, [key |-> lineno, items |-> <<>>])]
               ELSE fs0
        l == DictIndex(fs1[k].lines, lineno)
        lines == fs1[k].lines[l].items
        logged == Append(v.addLog,
                         [file |-> filepath, line |-> lineno, obj |-> obj])
    IN  IF Len(lines) > FileBucketCap
        THEN [v EXCEPT !.files = fs1, !.addLog = logged]
        ELSE [v EXCEPT !.files = [fs1 EXCEPT ![k].lines[l].items =
                                      Append(@, obj)],
                       !.addLog = logged]

\* Visitor._add: both defaultdict accesses create their entry, then the
\* object is appended unless the line already holds the cap.
Add(v, filepath, lineno, obj) ==
    LET fs0 == IF DictIndex(v.files, filepath) = 0
               THEN Append(v.files, [key |-> filepath, lines |-> <<>>])
               ELSE v.files
        k == DictIndex(fs0, filepath)
        fs1 == IF DictIndex(fs0[k].lines, lineno) = 0
               THEN [fs0 EXCEPT ![k].lines =
                        Append(@, [key |-> lineno, items |-> <<>>])]
               ELSE fs0
        l == DictIndex(fs1[k].lines, lineno)
        lines == fs1[k].lines[l].items
        logged == Append(v.addLog,
                         [file |-> filepath, line |-> lineno, obj |-> obj])
    IN  IF Len(lines) >= FileBucketCap
        THEN [v EXCEPT !.files = fs1, !.addLog = logged]
        ELSE [v EXCEPT !.files = [fs1 EXCEPT ![k].lines[l].items =
                                      Append(@, obj)],
                       !.addLog = logged]

FiledTags ==
    {"typedef", "class_type", "enumeration_type", "union_type",
     "structure_type", "variable", "subprogram", "imported_module",
     "imported_declaration"}

IgnoredUnitTags ==
    {"base_type", "array_type", "const_type", "pointer_type",
     "reference_type", "rvalue_reference_type", "atomic_type",
     "volatile_type", "restrict_type", "unspecified_type", "subroutine_type",
     "ptr_to_member_type", "label"}

MemberTags ==
    {"typedef", "class_type", "enumeration_type", "union_type",
     "structure_type", "member", "subprogram", "imported_module",
     "imported_declaration"}

TemplateParameterTags ==
    {"template_type_parameter", "template_value_parameter",
     "GNU_template_parameter_pack", "GNU_template_template_param"}

IgnoredSubprogramTags ==
    {"label", "lexical_block", "variable", "inlined_subroutine", "call_site",
     "typedef", "imported_module", "imported_declaration",
     "enumeration_type", "class_type", "structure_type", "union_type",
     "GNU_call_site"}

SubprogramAttrs ==
    {"DW_AT_linkage_name", "DW_AT_name", "DW_AT_decl_file", "DW_AT_decl_line",
     "DW_AT_low_pc", "DW_AT_high_pc", "DW_AT_frame_base",
     "DW_AT_call_all_calls", "DW_AT_calling_convention",
     "DW_AT_GNU_all_call_sites", "DW_AT_declaration", "DW_AT_prototyped",
     "DW_AT_artificial", "DW_AT_specification", "DW_AT_vtable_elem_location",
     "DW_AT_containing_type", "DW_AT_reference", "DW_AT_rvalue_reference",
     "DW_AT_external", "DW_AT_type",
     "DW_AT_inline", "DW_AT_noreturn", "DW_AT_explicit",
     "DW_AT_object_pointer", "DW_AT_abstract_origin", "DW_AT_accessibility",
     "DW_AT_virtuality", "DW_AT_deleted"}

StructAttrs ==
    {"DW_AT_name", "DW_AT_decl_file", "DW_AT_decl_line",
     "DW_AT_calling_convention", "DW_AT_byte_size", "DW_AT_declaration",
     "DW_AT_containing_type", "DW_AT_export_symbols", "DW_AT_signature",
     "DW_AT_alignment", "DW_AT_accessibility"}

\* The attributes _handle_attribute accepts; the DIEs of the model carry no
\* DW_AT_const_value, DW_AT_alignment or DW_AT_bit_size.
AttributeAttrs ==
    {"DW_AT_decl_file", "DW_AT_decl_line", "DW_AT_name", "DW_AT_linkage_name",
     "DW_AT_external", "DW_AT_location", "DW_AT_declaration",
     "DW_AT_byte_size", "DW_AT_bit_offset", "DW_AT_specification",
     "DW_AT_type", "DW_AT_accessibility", "DW_AT_data_member_location"}

NamespaceAttrs == {"DW_AT_name", "DW_AT_export_symbols"}

\* The attributes visit_enumeration_type accepts.
EnumAttrs ==
    {"DW_AT_decl_file", "DW_AT_decl_line", "DW_AT_name", "DW_AT_byte_size",
     "DW_AT_declaration", "DW_AT_signature", "DW_AT_type",
     "DW_AT_enum_class"}

\* The struct kind each tag's handler constructs.
KindOfTag(tag) ==
    IF tag = "class_type" THEN "class"
    ELSE IF tag = "union_type" THEN "union"
    ELSE "struct"

\* Mutation of DefaultAccess: every kind of type defaults to public.
DefaultAccessPublic(kind) == PUBLIC

\* access = PRIVATE if isinstance(struct, Class) else PUBLIC
DefaultAccess(kind) == IF kind = "class" THEN PRIVATE ELSE PUBLIC

-----------------------------------------------------------------------------
(* visitor.py: the handlers.  Each takes the visitor state and a DIE and   *)
(* returns the state the handler leaves; after a raise (error set) every   *)
(* caller returns at once.  The DIE graphs of the model hold no typedef    *)
(* DIE, whose handler is not modelled.                                     *)

RECURSIVE Visit(_, _), HandleUnitFrom(_, _, _), NamespaceFrom(_, _, _, _),
          StructFrom(_, _, _, _), GenericFrom(_, _, _), VisitEnumeration(_, _),
          VisitImportedModule(_, _), VisitImportedDeclaration(_, _)

\* The template_params branch that ends _handle_struct, _handle_attribute
\* and visit_subprogram: the Template is built and attached, then the first
\* template parameter is visited.
AttachTemplate(v, o, declaration, tps) ==
    LET t == [kind |-> "template", name |-> "", parent |-> 0,
              is_implicit |-> FALSE, is_declaration |-> FALSE,
              access |-> None, template |-> 0, declaration |-> declaration,
              parameters |-> <<>>, die |-> 0]
        v1 == Alloc(v, t)
    IN  Visit([v1 EXCEPT !.heap[o].template = Fresh(v)], tps[1])

\* The children of a DIE that carry one of the given tags, in order.
ChildrenTagged(d, tags) ==
    SelectSeq(dies[d].children, LAMBDA c : dies[c].tag \in tags)

\* The parameters visit_subprogram collects from the DIE's children.
ParametersOf(d) ==
    [i \in 1..Len(dies[d].params) |->
        IF dies[d].params[i].variadic
        THEN Parameter("", "", VARIADIC)
        ELSE Parameter(dies[d].params[i].name, dies[d].params[i].type,
                       POSITIONAL)]

\* key: the linkage name, or the short name of an external function, with
\* the number of parameters; None when the function has neither.
FunctionKey(d, n) ==
    IF Truthy(dies[d].linkage_name)
    THEN dies[d].linkage_name \o "@" \o ToString(n)
    ELSE IF dies[d].external /\ Truthy(dies[d].short_name)
    THEN dies[d].short_name \o "@" \o ToString(n)
    ELSE None

\* The names recorded for a key, completed by a later function's: a
\* missing name is taken from the function when it has one.
MergeParamNames(names, ps) ==
    [i \in 1..Len(names) |->
        IF names[i] = None /\ ps[i].name # None THEN ps[i].name ELSE names[i]]

\* "sync parameter names from definition to declaration": the function f
\* (built from DIE d) is registered under its key.
Register(v, d, f) ==
    LET ps == v.heap[f].parameters
        key == FunctionKey(d, Len(ps))
        spec == dies[d].spec
        fns0 == Touch(v.functions, key)
        fns1 == [fns0 EXCEPT ![key] = Append(@, f)]
        fns2 == IF spec # 0 /\ ~Truthy(dies[spec].linkage_name)
                THEN [fns1 EXCEPT ![key] = Append(@, Get(v, spec))]
                ELSE fns1
        k == DictIndex(v.param_names, key)
    IN  IF ~Truthy(key)
        THEN v
        ELSE IF k = 0
        THEN [v EXCEPT !.functions = fns2,
                       !.param_names = Append(@,
                           [key |-> key,
                            names |-> [i \in 1..Len(ps) |-> ps[i].name]])]
        ELSE IF Len(v.param_names[k].names) # Len(ps)
        THEN Fail([v EXCEPT !.functions = fns2], "AssertionError")
        ELSE [v EXCEPT !.functions = fns2,
                       !.param_names[k].names = MergeParamNames(@, ps)]

\* visit_subprogram from the attribute loop on, the Function being fn.
SubprogramRest(v, d, fn) ==
    LET die == dies[d]
        fn1 == [fn EXCEPT
                  !.is_inline = die.inline \in {"DECLARED_NOT_INLINED",
                                                "DECLARED_INLINED"},
                  !.noreturn = "DW_AT_noreturn" \in die.attrs,
                  !.is_explicit = "DW_AT_explicit" \in die.attrs,
                  !.is_deleted = "DW_AT_deleted" \in die.attrs,
                  !.access = die.accessibility,
                  !.virtuality = die.virtuality,
                  !.parameters = ParametersOf(d)]
        tps == ChildrenTagged(d, TemplateParameterTags)
        f == Fresh(v)
        v1 == Register(Alloc(v, fn1), d, f)
    IN  IF AttrNames(d) \ SubprogramAttrs # {}
        THEN Fail(v, "ValueError")
        ELSE IF die.virtuality = "none"
        THEN Fail(v, "AssertionError")
        ELSE IF \E i \in 1..Len(die.children) :
                   dies[die.children[i]].tag \notin
                       (IgnoredSubprogramTags \cup TemplateParameterTags)
        THEN Fail(v, "ValueError")
        ELSE IF v1.error # NoError
        THEN v1
        ELSE IF tps # <<>>
        THEN AttachTemplate(v1, f, 0, tps)
        ELSE Set(v1, d, f)

\* Mutation of ObjectPointer: a declaration found static is made inline.
ObjectPointerInlining(h, decl, d) ==
    IF dies[d].object_pointer = "absent"
    THEN [h EXCEPT ![decl].is_static = TRUE, ![decl].is_inline = TRUE]
    ELSE IF dies[d].object_pointer = "const"
    THEN [h EXCEPT ![decl].is_const = TRUE]
    ELSE h

\* The object-pointer step of visit_subprogram on the declaration: without
\* an object pointer the declaration is static, and it is const when the
\* pointer's type chain reaches a const type.
ObjectPointer(h, decl, d) ==
    IF dies[d].object_pointer = "absent"
    THEN [h EXCEPT ![decl].is_static = TRUE]
    ELSE IF dies[d].object_pointer = "const"
    THEN [h EXCEPT ![decl].is_const = TRUE]
    ELSE h

\* Visitor.visit_subprogram
VisitSubprogram(v, d) ==
    LET die == dies[d]
        v1 == Visit(v, die.spec)
        decl == Get(v1, die.spec)
        v2 == [v1 EXCEPT !.heap = ObjectPointer(@, decl, d)]
    IN  IF die.decl_file = None \/ die.decl_line = 0 \/ ~Truthy(die.short_name)
        THEN v
        ELSE IF die.spec # 0
        THEN IF dies[die.spec].tag # "subprogram"
             THEN Fail(v, "AssertionError")
             ELSE IF v1.error # NoError
             THEN v1
             ELSE IF decl = 0
             THEN v1
             ELSE SubprogramRest(v2, d,
                      NewFunction(ScopedName(die.spec), v2.heap[decl].returns,
                                  v2.heap[decl].is_const, d))
        ELSE IF die.artificial
        THEN v
        ELSE SubprogramRest(v, d,
                 NewFunction(die.short_name,
                             IF die.type # None THEN die.type ELSE "void",
                             FALSE, d))

\* Visitor._handle_attribute
HandleAttribute(v, d) ==
    LET die == dies[d]
        variable == [NewAttribute(die.short_name, d) EXCEPT
                        !.type = die.type, !.access = die.accessibility]
        tps == ChildrenTagged(d, {"template_type_parameter",
                                  "template_value_parameter",
                                  "GNU_template_parameter_pack"})
        a == Fresh(v)
        v1 == Alloc(v, variable)
        declaration == [variable EXCEPT !.type = BeforeAngle(@),
                                        !.is_declaration = TRUE]
    IN  IF ~Truthy(die.decl_file) \/ die.decl_line = 0 \/ ~Truthy(die.short_name)
        THEN v
        ELSE IF die.spec # 0
        THEN IF dies[die.spec].tag # "member"
             THEN Fail(v, "AssertionError")
             ELSE v
        ELSE IF die.type = None
        THEN Fail(v, "AttributeError")
        ELSE IF AttrNames(d) \ AttributeAttrs # {}
        THEN Fail(v, "ValueError")
        ELSE IF Len(tps) # Len(die.children)
        THEN Fail(v, "ValueError")
        ELSE IF tps # <<>>
        THEN AttachTemplate(Alloc(v1, declaration), a, a + 1, tps)
        ELSE Set(v1, d, a)

\* Visitor.visit_member
VisitMember(v, d) ==
    LET v1 == HandleAttribute(v, d)
        member == Get(v1, d)
    IN  IF v1.error = NoError /\ member # 0 /\ dies[d].external
        THEN [v1 EXCEPT !.heap[member].is_static = TRUE]
        ELSE v1

\* The loop of Visitor._handle_unit over die.children, from child i on.
HandleUnitFrom(v, d, i) ==
    IF v.error # NoError \/ i > Len(dies[d].children)
    THEN v
    ELSE LET child == dies[d].children[i]
             c == dies[child]
             decl_file == NormPath(Slashes(c.decl_file))
             v1 == Visit(v, child)
             obj == Get(v1, child)
         IN  IF c.tag = "namespace"
             THEN HandleUnitFrom(v1, d, i + 1)
             ELSE IF c.tag \in FiledTags
             THEN IF ~Truthy(c.decl_file)
                  THEN HandleUnitFrom(v, d, i + 1)
                  ELSE IF ~StartsWith(decl_file, BaseDir)
                  THEN HandleUnitFrom(v, d, i + 1)
                  ELSE IF c.decl_line = 0
                  THEN HandleUnitFrom(v, d, i + 1)
                  ELSE IF v1.error # NoError
                  THEN v1
                  ELSE IF obj # 0
                  THEN HandleUnitFrom(Add(v1, decl_file, c.decl_line, obj),
                                      d, i + 1)
                  ELSE HandleUnitFrom(v1, d, i + 1)
             ELSE IF c.tag \in IgnoredUnitTags
             THEN HandleUnitFrom(v, d, i + 1)
             ELSE Fail(v, "ValueError")

\* The loop of Visitor.visit_namespace over die.children, from child i on,
\* the Namespace being n.
NamespaceFrom(v, d, n, i) ==
    IF v.error # NoError \/ i > Len(dies[d].children)
    THEN v
    ELSE LET child == dies[d].children[i]
             c == dies[child]
             decl_file == NormPath(Slashes(c.decl_file))
             v1 == Visit(v, child)
             member == Get(v1, child)
             adopted == [v1 EXCEPT !.heap[member].parent = n]
         IN  IF c.tag = "namespace"
             THEN IF v1.error # NoError
                  THEN v1
                  ELSE IF v1.heap[member].parent # 0
                  THEN Fail(v1, "AssertionError")
                  ELSE NamespaceFrom(adopted, d, n, i + 1)
             ELSE IF c.tag \in FiledTags
             THEN IF ~Truthy(c.decl_file)
                  THEN NamespaceFrom(v, d, n, i + 1)
                  ELSE IF ~StartsWith(decl_file, BaseDir)
                  THEN NamespaceFrom(v, d, n, i + 1)
                  ELSE IF c.decl_line = 0
                  THEN NamespaceFrom(v, d, n, i + 1)
                  ELSE IF v1.error # NoError
                  THEN v1
                  ELSE IF member = 0
                  THEN NamespaceFrom(v1, d, n, i + 1)
                  ELSE IF v1.heap[member].parent # 0
                  THEN Fail(v1, "AssertionError")
                  ELSE NamespaceFrom(
                           Add(adopted, decl_file, c.decl_line, member),
                           d, n, i + 1)
             ELSE Fail(v, "ValueError")

\* Visitor.visit_namespace
VisitNamespace(v, d) ==
    LET die == dies[d]
        namespace == [NewNamespace(die.short_name, d) EXCEPT
                         !.is_inline = /\ "DW_AT_export_symbols" \in die.attrs
                                       /\ die.short_name # None]
        n == Fresh(v)
    IN  IF AttrNames(d) \ NamespaceAttrs # {}
        THEN Fail(v, "ValueError")
        ELSE NamespaceFrom(Set(Alloc(v, namespace), d, n), d, n, 1)

\* Mutation of ClearsReturns: only the operators lose their return type.
ClearsReturnsOfOperators(class_name, short_name) ==
    StartsWith(short_name, "operator ")

\* "constructors, destructors and operators should have no return type":
\* whether _handle_struct clears the returns of the member built from child.
ClearsReturns(class_name, short_name) ==
    \/ StartsWith(short_name, "operator ")
    \/ /\ Truthy(class_name)
       /\ Truthy(short_name)
       /\ BeforeAngle(short_name) \in {class_name, "~" \o class_name}

\* Mutation of AcceptMember: the member is given no parent.
AcceptMemberOrphan(h, s, m, line, access, class_name, short_name) ==
    LET h1 == [h EXCEPT ![m].access = IF @ = None THEN access ELSE @]
        h2 == [h1 EXCEPT ![s].members[line] = Append(@, m)]
    IN  IF h2[m].kind = "function" /\ ClearsReturns(class_name, short_name)
        THEN [h2 EXCEPT ![m].returns = None]
        ELSE h2

\* What _handle_struct does to a member it has visited: parent, default
\* access, the append to the line's bucket, and the cleared return type.
AcceptMember(h, s, m, line, access, class_name, short_name) ==
    LET h1 == [h EXCEPT ![m].parent = s,
                        ![m].access = IF @ = None THEN access ELSE @]
        h2 == [h1 EXCEPT ![s].members[line] = Append(@, m)]
    IN  IF h2[m].kind = "function" /\ ClearsReturns(class_name, short_name)
        THEN [h2 EXCEPT ![m].returns = None]
        ELSE h2

\* Mutation of Declaration: the copy keeps the struct's members.
DeclarationKeepingMembers(struct) ==
    [struct EXCEPT !.name = BeforeAngle(@), !.bases = <<>>,
                   !.alignment = None, !.is_declaration = TRUE]

\* declaration = copy.copy(struct) and the five assignments that follow it
\* in _handle_struct: the copy is a new object, the struct is not written.
Declaration(struct) ==
    [struct EXCEPT !.name = BeforeAngle(@), !.bases = <<>>,
                   !.members = EmptyMap, !.alignment = None,
                   !.is_declaration = TRUE]

\* The loop of Visitor._handle_struct over die.children, from child i on,
\* the Struct being s.
StructFrom(v, d, s, i) ==
    IF v.error # NoError \/ i > Len(dies[d].children)
    THEN v
    ELSE LET child == dies[d].children[i]
             c == dies[child]
             name == v.heap[s].name
             class_name == IF Truthy(name) THEN BeforeAngle(name) ELSE None
             access == DefaultAccess(v.heap[s].kind)
             touched == [v EXCEPT !.heap[s].members = Touch(@, c.decl_line)]
             v1 == Visit(touched, child)
             member == Get(v1, child)
             base == IF c.virtuality # None
                     THEN "virtual " \o c.type ELSE c.type
         IN  IF c.tag \in MemberTags
             THEN IF c.decl_line = 0
                  THEN StructFrom(v, d, s, i + 1)
                  ELSE IF Len(touched.heap[s].members[c.decl_line])
                              > MemberBucketCap
                  THEN StructFrom(touched, d, s, i + 1)
                  ELSE IF v1.error # NoError
                  THEN v1
                  ELSE IF member = 0
                  THEN StructFrom(v1, d, s, i + 1)
                  ELSE StructFrom(
                           [v1 EXCEPT !.heap = AcceptMember(@, s, member,
                                c.decl_line, access, class_name, c.short_name)],
                           d, s, i + 1)
             ELSE IF c.tag \in TemplateParameterTags
             THEN StructFrom(v, d, s, i + 1)
             ELSE IF c.tag = "inheritance"
             THEN IF c.type = None
                  THEN Fail(v, "AttributeError")
                  ELSE IF AttrNames(child) \
                            {"DW_AT_type", "DW_AT_data_member_location",
                             "DW_AT_accessibility", "DW_AT_virtuality"} # {}
                  THEN Fail(v, "ValueError")
                  ELSE IF c.virtuality = "none"
                  THEN Fail(v, "AssertionError")
                  ELSE StructFrom(
                           [v EXCEPT !.heap[s].bases =
                                Append(@, <<base, c.accessibility>>)],
                           d, s, i + 1)
             ELSE Fail(v, "ValueError")

\* Visitor._handle_struct, the Struct being built of the given kind.
HandleStruct(v, d, kind) ==
    LET die == dies[d]
        struct == [NewStruct(kind, die.short_name, d) EXCEPT
                      !.alignment = die.alignment,
                      !.access = die.accessibility]
        s == Fresh(v)
        v1 == StructFrom(Set(Alloc(v, struct), d, s), d, s, 1)
        tps == ChildrenTagged(d, TemplateParameterTags)
    IN  IF AttrNames(d) \ StructAttrs # {}
        THEN Fail(v, "ValueError")
        ELSE IF v1.error # NoError
        THEN v1
        ELSE IF tps # <<>>
        THEN IF v1.heap[s].name = None
             THEN Fail(v1, "AttributeError")
             ELSE AttachTemplate(Alloc(v1, Declaration(v1.heap[s])), s,
                                 Fresh(v1), tps)
        ELSE v1

\* Visitor.visit_enumeration_type
VisitEnumeration(v, d) ==
    LET die == dies[d]
        enum == [NewEnum(die.short_name, d) EXCEPT
                    !.base = die.type,
                    !.is_class = "DW_AT_enum_class" \in die.attrs,
                    !.values = [i \in 1..Len(die.children) |->
                                   <<dies[die.children[i]].short_name,
                                     dies[die.children[i]].const_value>>]]
    IN  IF AttrNames(d) \ EnumAttrs # {}
        THEN Fail(v, "ValueError")
        ELSE IF \E i \in 1..Len(die.children) :
                   /\ dies[die.children[i]].tag = "enumerator"
                   /\ dies[die.children[i]].const_value = None
                   /\ \A j \in 1..(i - 1) :
                         dies[die.children[j]].tag = "enumerator"
        THEN Fail(v, "AttributeError")
        ELSE IF \E i \in 1..Len(die.children) :
                   dies[die.children[i]].tag # "enumerator"
        THEN Fail(v, "ValueError")
        ELSE Visit(Set(Alloc(v, enum), d, Fresh(v)),
                   ResolveTypeUnitReference(d))

\* Visitor.visit_imported_module
VisitImportedModule(v, d) ==
    LET die == dies[d]
        v1 == Visit(v, die.import)
        module == NewImported("imported_module", "", Get(v1, die.import), d)
    IN  IF ~Truthy(die.decl_file) \/ die.decl_line = 0
        THEN Fail(v, "ValueError")
        ELSE IF die.import = 0
        THEN Fail(v, "AttributeError")
        ELSE IF dies[die.import].tag # "namespace"
        THEN Fail(v, "AssertionError")
        ELSE IF v1.error # NoError
        THEN v1
        ELSE IF AttrNames(d) \ {"DW_AT_decl_file", "DW_AT_decl_line",
                                "DW_AT_import"} # {}
        THEN Fail(v1, "ValueError")
        ELSE Set(Alloc(v1, module), d, Fresh(v1))

\* Visitor.visit_imported_declaration
VisitImportedDeclaration(v, d) ==
    LET die == dies[d]
        v1 == Visit(v, die.import)
        import_ == Get(v1, die.import)
        decl == IF dies[die.import].tag = "namespace"
                THEN NewImported("imported_declaration", die.short_name,
                                 import_, d)
                ELSE NewImported("imported_declaration", "",
                         ScopedName(ResolveTypeUnitReference(die.import)), d)
    IN  IF ~Truthy(die.decl_file) \/ die.decl_line = 0
        THEN Fail(v, "ValueError")
        ELSE IF die.import = 0
        THEN Fail(v, "AttributeError")
        ELSE IF v1.error # NoError
        THEN v1
        ELSE IF import_ = 0
        THEN v1
        ELSE IF AttrNames(d) \ {"DW_AT_decl_file", "DW_AT_decl_line",
                                "DW_AT_name", "DW_AT_import"} # {}
        THEN Fail(v1, "ValueError")
        ELSE Set(Alloc(v1, decl), d, Fresh(v1))

\* Visitor.generic_visit, from child i on.
GenericFrom(v, d, i) ==
    IF v.error # NoError \/ i > Len(dies[d].children)
    THEN v
    ELSE GenericFrom(Visit(v, dies[d].children[i]), d, i + 1)

\* Visitor.visit: a cached DIE returns at once; any other is dispatched on
\* its tag.  Constructing a TemplateParameter raises TypeError in each of
\* the four template-parameter handlers (models.py declares name first and
\* the handlers pass the kind positionally together with name=).
Visit(v, d) ==
    IF v.error # NoError
    THEN v
    ELSE IF Get(v, d) # 0
    THEN v
    ELSE LET w == [v EXCEPT !.visitLog = Append(@, d)]
             tag == dies[d].tag
         IN  IF tag \in {"compile_unit", "type_unit"}
             THEN HandleUnitFrom(w, d, 1)
             ELSE IF tag = "namespace"
             THEN VisitNamespace(w, d)
             ELSE IF tag \in {"class_type", "union_type", "structure_type"}
             THEN Visit(HandleStruct(w, d, KindOfTag(tag)),
                        ResolveTypeUnitReference(d))
             ELSE IF tag = "subprogram"
             THEN VisitSubprogram(w, d)
             ELSE IF tag = "variable"
             THEN HandleAttribute(w, d)
             ELSE IF tag = "member"
             THEN VisitMember(w, d)
             ELSE IF tag \in TemplateParameterTags
             THEN Fail(w, "TypeError")
             ELSE IF tag = "enumeration_type"
             THEN VisitEnumeration(w, d)
             ELSE IF tag = "imported_module"
             THEN VisitImportedModule(w, d)
             ELSE IF tag = "imported_declaration"
             THEN VisitImportedDeclaration(w, d)
             ELSE GenericFrom(w, d, 1)

-----------------------------------------------------------------------------
(* visitor.py: Visitor.files, one action for each iteration of its loops   *)

\* The visitor state w becomes the Visitor's.
Commit(w) ==
    /\ objects' = w.objects
    /\ heap' = w.heap
    /\ files' = w.files
    /\ param_names' = w.param_names
    /\ functions' = w.functions
    /\ error' = w.error
    /\ visitLog' = w.visitLog
    /\ addLog' = w.addLog

\* Mutation of Eligible: no compile unit is skipped.
EligibleAlways(d) == TRUE

\* compilation_dir.replace("\\", "/").startswith(self._base_dir)
Eligible(d) == StartsWith(Slashes(dies[d].comp_dir), BaseDir)

\* for tu in types_section_units: self.visit(tu.unit_die)
VisitTypeUnit ==
    /\ pc = "visit"
    /\ tu <= Len(type_units)
    /\ LET w == Visit(VisState, type_units[tu])
       IN  /\ Commit(w)
           /\ pc' = IF w.error # NoError THEN "error" ELSE "visit"
    /\ tu' = tu + 1
    /\ UNCHANGED <<dies, type_units, compile_units, cu, fi, yielded, pre, ret>>
    /\ UNCHANGED cleanVars
    /\ UNCHANGED templateVars
    /\ UNCHANGED filterVars

\* for cu in compile_units: a unit under base_dir is visited
VisitCompileUnit ==
    /\ pc = "visit"
    /\ tu > Len(type_units)
    /\ cu <= Len(compile_units)
    /\ Eligible(compile_units[cu])
    /\ LET w == Visit(VisState, compile_units[cu])
       IN  /\ Commit(w)
           /\ pc' = IF w.error # NoError THEN "error" ELSE "visit"
    /\ cu' = cu + 1
    /\ UNCHANGED <<dies, type_units, compile_units, tu, fi, yielded, pre, ret>>
    /\ UNCHANGED cleanVars
    /\ UNCHANGED templateVars
    /\ UNCHANGED filterVars

\* for cu in compile_units: any other unit is skipped (continue)
SkipCompileUnit ==
    /\ pc = "visit"
    /\ tu > Len(type_units)
    /\ cu <= Len(compile_units)
    /\ ~Eligible(compile_units[cu])
    /\ cu' = cu + 1
    /\ UNCHANGED <<dies, type_units, compile_units, objects, heap, files,
                   param_names, functions, error, pc, tu, fi, yielded,
                   visitLog, addLog, pre, ret>>
    /\ UNCHANGED cleanVars
    /\ UNCHANGED templateVars
    /\ UNCHANGED filterVars

\* Mutation of FillFunction: the recorded names replace the function's own.
FillFunctionOverwriting(h, f, names) ==
    LET ps == h[f].parameters
    IN  [h EXCEPT ![f].parameters =
            [i \in 1..Len(ps) |-> [ps[i] EXCEPT !.name = names[i]]]]

\* if param.name is None: param.name = param_names[i]
FillFunction(h, f, names) ==
    LET ps == h[f].parameters
    IN  [h EXCEPT ![f].parameters =
            [i \in 1..Len(ps) |->
                IF ps[i].name = None
                THEN [ps[i] EXCEPT !.name = names[i]]
                ELSE ps[i]]]

\* The back-fill loops from the j-th function of the k-th key on.
RECURSIVE BackFillFrom(_, _, _)
BackFillFrom(h, k, j) ==
    IF k > Len(param_names)
    THEN h
    ELSE LET fs == functions[param_names[k].key]
         IN  IF j > Len(fs)
             THEN BackFillFrom(h, k + 1, 1)
             ELSE BackFillFrom(FillFunction(h, fs[j], param_names[k].names),
                               k, j + 1)

\* param_names[i] raises IndexError: a function under a key has an unnamed
\* parameter beyond the names recorded for the key.
BackFillRaises ==
    \E k \in 1..Len(param_names) :
        \E j \in 1..Len(functions[param_names[k].key]) :
            LET ps == heap[functions[param_names[k].key][j]].parameters
            IN  \E i \in 1..Len(ps) :
                    ps[i].name = None /\ i > Len(param_names[k].names)

\* Mutation of BackFilled: the files are assembled without the back-fill.
BackFilledNothing == heap

\* The heap the back-fill of Visitor.files leaves.
BackFilled == BackFillFrom(heap, 1, 1)

\* for key, param_names in self._param_names.items(): ...
BackFill ==
    /\ pc = "visit"
    /\ tu > Len(type_units)
    /\ cu > Len(compile_units)
    /\ IF BackFillRaises
       THEN error' = "IndexError" /\ pc' = "error" /\ heap' = heap
       ELSE error' = error /\ pc' = "files" /\ heap' = BackFilled
    /\ UNCHANGED <<dies, type_units, compile_units, objects, files,
                   param_names, functions, tu, cu, fi, yielded, visitLog,
                   addLog, pre, ret>>
    /\ UNCHANGED cleanVars
    /\ UNCHANGED templateVars
    /\ UNCHANGED filterVars

\* for line, objects in file.items(): the bucket is reduced, from the l-th
\* line of the file on.
RECURSIVE ReduceLines(_, _, _)
ReduceLines(h, lines, l) ==
    IF l > Len(lines)
    THEN [heap |-> h, lines |-> lines]
    ELSE LET r == Reduce(h, lines[l].items)
         IN  ReduceLines(r.heap, [lines EXCEPT ![l].items = r.result], l + 1)

\* for path, file in self._files.items(): a file under base_dir has its
\* buckets reduced and is yielded
YieldFile ==
    /\ pc = "files"
    /\ fi <= Len(files)
    /\ ~StartsWith(RelPath(files[fi].key), "../")
    /\ LET r == ReduceLines(heap, files[fi].lines, 1)
       IN  /\ heap' = r.heap
           /\ files' = [files EXCEPT ![fi].lines = r.lines]
    /\ yielded' = Append(yielded, RelPath(files[fi].key))
    /\ fi' = fi + 1
    /\ UNCHANGED <<dies, type_units, compile_units, objects, param_names,
                   functions, error, pc, tu, cu, visitLog, addLog, pre, ret>>
    /\ UNCHANGED cleanVars
    /\ UNCHANGED templateVars
    /\ UNCHANGED filterVars

\* for path, file in self._files.items(): a path that leaves base_dir is
\* skipped (continue)
SkipFile ==
    /\ pc = "files"
    /\ fi <= Len(files)
    /\ StartsWith(RelPath(files[fi].key), "../")
    /\ fi' = fi + 1
    /\ UNCHANGED <<dies, type_units, compile_units, objects, heap, files,
                   param_names, functions, error, pc, tu, cu, yielded,
                   visitLog, addLog, pre, ret>>
    /\ UNCHANGED cleanVars
    /\ UNCHANGED templateVars
    /\ UNCHANGED filterVars

\* The generator is exhausted.
Finish ==
    /\ pc = "files"
    /\ fi > Len(files)
    /\ pc' = "done"
    /\ UNCHANGED <<dies, type_units, compile_units, objects, heap, files,
                   param_names, functions, error, tu, cu, fi, yielded,
                   visitLog, addLog, pre, ret>>
    /\ UNCHANGED cleanVars
    /\ UNCHANGED templateVars
    /\ UNCHANGED filterVars

Next ==
    \/ VisitTypeUnit
    \/ VisitCompileUnit
    \/ SkipCompileUnit
    \/ BackFill
    \/ YieldFile
    \/ SkipFile
    \/ Finish

\* A direct call a.merge(b) on the two objects of the heap.
MergeCall ==
    /\ pc = "call"
    /\ pre' = heap
    /\ LET m == Merge(heap, 1, 2)
       IN  heap' = m.heap /\ ret' = m.ok
    /\ pc' = "returned"
    /\ UNCHANGED <<dies, type_units, compile_units, objects, files,
                   param_names, functions, error, tu, cu, fi, yielded,
                   visitLog, addLog>>
    /\ UNCHANGED cleanVars
    /\ UNCHANGED templateVars
    /\ UNCHANGED filterVars

\* Visitor._register_template(key, lineno, template) on the heap h and the
\* registry ts: the heap, the registry and the exception it leaves, and what
\* it returns (0 for None).  TemplateParameter has no to_declaration method:
\* the copy's parameter list cannot be built unless it is empty.
RegisterTemplate(h, ts, key, lineno, t) ==
    LET at == <<key, lineno>>
        touched == Touch(ts, at)
        templates_ == touched[at]
        copy == Len(h) + 1
        h1 == Append(h, h[t])
        merging == {i \in 1..Len(templates_) :
                       TemplateMerge(h1, templates_[i], copy).ok}
        first == CHOOSE i \in merging : \A j \in merging : i <= j
    IN  IF h[t].declaration = 0
        THEN [heap |-> h, templates |-> ts, error |-> NoError, returned |-> 0]
        ELSE IF h[t].parameters # <<>>
        THEN [heap |-> h1, templates |-> touched, error |-> "AttributeError",
              returned |-> 0]
        ELSE IF merging # {}
        THEN [heap |-> TemplateMerge(h1, templates_[first], copy).heap,
              templates |-> touched, error |-> NoError, returned |-> 0]
        ELSE [heap |-> h1,
              templates |-> [touched EXCEPT ![at] = Append(@, copy)],
              error |-> NoError, returned |-> copy]

\* The next direct call of _register_template.
RegisterCall ==
    /\ pc = "register"
    /\ error = NoError
    /\ Len(registered) < Len(requests)
    /\ LET q == requests[Len(registered) + 1]
           r == RegisterTemplate(heap, templates, q.key, q.lineno, q.template)
       IN  /\ heap' = r.heap
           /\ templates' = r.templates
           /\ error' = r.error
           /\ registered' = IF r.error = NoError
                            THEN Append(registered, r.returned)
                            ELSE registered
    /\ UNCHANGED <<dies, type_units, compile_units, objects, files,
                   param_names, functions, pc, tu, cu, fi, yielded, visitLog,
                   addLog, pre, ret, requests>>
    /\ UNCHANGED cleanVars
    /\ UNCHANGED filterVars

NextRegister == RegisterCall

-----------------------------------------------------------------------------
(* post_process.py, filters.py: the Name Normaliser.  Strings are strings; *)
(* a regular expression is the sequence of its elements, matched by        *)
(* backtracking in the order of Python's re.                               *)

\* The elements of a pattern: a literal, \s*, a group (.+?) or (.+), a back
\* reference, a group (\d), \d+, and an alternation of two patterns.
Lit(str) == [t |-> "lit", s |-> str, g |-> 0, a |-> <<>>, b |-> <<>>]
Ws == [t |-> "ws", s |-> "", g |-> 0, a |-> <<>>, b |-> <<>>]
Lazy(n) == [t |-> "lazy", s |-> "", g |-> n, a |-> <<>>, b |-> <<>>]
Greedy(n) == [t |-> "greedy", s |-> "", g |-> n, a |-> <<>>, b |-> <<>>]
Ref(n) == [t |-> "ref", s |-> "", g |-> n, a |-> <<>>, b |-> <<>>]
Digit(n) == [t |-> "digit", s |-> "", g |-> n, a |-> <<>>, b |-> <<>>]
Digits == [t |-> "digits", s |-> "", g |-> 0, a |-> <<>>, b |-> <<>>]
Alt(x, y) == [t |-> "alt", s |-> "", g |-> 0, a |-> x, b |-> y]

\* The characters \s, \d and . match.
IsSpace(c) == c \in {" ", "\t", "\n", "\r", "\f"}
IsDigit(c) == c \in {"0", "1", "2", "3", "4", "5", "6", "7", "8", "9"}
IsDot(c) == c # "\n"

\* The string s holds lit at position pos.
HasAt(s, pos, lit) ==
    /\ pos + Len(lit) - 1 <= Len(s)
    /\ SubSeq(s, pos, pos + Len(lit) - 1) = lit

\* The one element of a singleton.  Pick({e : x \in {v}}) is e with x holding
\* the value of v, as a local variable of the Python code holds a value.
Pick(S) == CHOOSE v \in S : TRUE

\* The number of characters from pos on that the element's class matches.
RunLength(s, pos, t) ==
    LET in(c) == CASE t = "ws" -> IsSpace(c)
                   [] t = "digits" -> IsDigit(c)
                   [] OTHER -> IsDot(c)
        stop(k) == pos + k > Len(s) \/ ~in(SubSeq(s, pos + k, pos + k))
    IN  CHOOSE k \in 0..(Len(s) + 1 - pos) :
            stop(k) /\ \A l \in 0..(k - 1) : ~stop(l)

NoMatch == [ok |-> FALSE, end |-> 0, grp |-> <<"", "">>]

\* Of the attempts T (pairs of a repetition's length and the match of the
\* rest of the pattern after it), the first that succeeded in the
\* repetition's order of preference: shortest first for a lazy one, longest
\* first otherwise.
Preferred(T, t) ==
    IF \A x \in T : ~x[2].ok
    THEN NoMatch
    ELSE IF t = "lazy"
    THEN (CHOOSE x \in T :
            x[2].ok /\ \A y \in T : y[2].ok => x[1] <= y[1])[2]
    ELSE (CHOOSE x \in T :
            x[2].ok /\ \A y \in T : y[2].ok => x[1] >= y[1])[2]

\* The match of the elements i.. of pat at position pos of s, with the
\* groups bound so far, found by backtracking.
RECURSIVE Match(_, _, _, _, _)
MatchElement(pat, i, s, pos, grp) ==
    IF i > Len(pat)
    THEN [ok |-> TRUE, end |-> pos, grp |-> grp]
    ELSE LET e == pat[i] IN
         CASE e.t = "lit" ->
                IF HasAt(s, pos, e.s)
                THEN Match(pat, i + 1, s, pos + Len(e.s), grp)
                ELSE NoMatch
           [] e.t = "ref" ->
                IF HasAt(s, pos, grp[e.g])
                THEN Match(pat, i + 1, s, pos + Len(grp[e.g]), grp)
                ELSE NoMatch
           [] e.t = "digit" ->
                IF pos <= Len(s) /\ IsDigit(SubSeq(s, pos, pos))
                THEN Match(pat, i + 1, s, pos + 1,
                           [grp EXCEPT ![e.g] = SubSeq(s, pos, pos)])
                ELSE NoMatch
           [] e.t = "alt" ->
                Pick({IF m.ok
                      THEN m
                      ELSE Match(e.b \o SubSeq(pat, i + 1, Len(pat)), 1, s,
                                 pos, grp) :
                        m \in {Match(e.a \o SubSeq(pat, i + 1, Len(pat)), 1,
                                     s, pos, grp)}})
           [] OTHER ->
                Pick({Preferred(tries, e.t) :
                        tries \in
                          {{<<n, Match(pat, i + 1, s, pos + n,
                                       IF e.g = 0 THEN grp
                                       ELSE [grp EXCEPT ![e.g] =
                                                SubSeq(s, pos, pos + n - 1)])>> :
                              n \in (IF e.t = "ws" THEN 0 ELSE 1)
                                        ..RunLength(s, pos, e.t)}}})

Match(pat, i, s, pos, grp) ==
    Pick({MatchElement(p, j, t, q, g) :
            p \in {pat}, j \in {i}, t \in {s}, q \in {pos}, g \in {grp}})

\* The replacement template with the groups of a match filled in.
RECURSIVE Expand(_, _, _)
Expand(repl, i, grp) ==
    IF i > Len(repl)
    THEN ""
    ELSE (IF repl[i].t = "ref" THEN grp[repl[i].g] ELSE repl[i].s)
            \o Expand(repl, i + 1, grp)

\* Of the attempts F (pairs of a start position and the match there), the
\* leftmost that succeeded.
Leftmost(F) ==
    CHOOSE x \in F : x[2].ok /\ \A y \in F : y[2].ok => x[1] <= y[1]

\* re.sub(pattern, repl, s) from position pos on: the leftmost match is
\* replaced and the scan goes on after it.
RECURSIVE SubFrom(_, _, _, _)
SubAfter(pat, repl, s, pos, found) ==
    IF \A x \in found : ~x[2].ok
    THEN SubSeq(s, pos, Len(s))
    ELSE Pick({SubSeq(s, pos, first[1] - 1)
                   \o Expand(repl, 1, first[2].grp)
                   \o SubFrom(pat, repl, s, first[2].end) :
                 first \in {Leftmost(found)}})

SubFrom(pat, repl, s, pos) ==
    Pick({SubAfter(p, r, t, q, found) :
            p \in {pat}, r \in {repl}, t \in {s}, q \in {pos},
            found \in {{<<k, Match(pat, 1, s, k, <<"", "">>)>> :
                           k \in pos..Len(s)}}})

\* re.sub(pattern, repl, s)
Sub(rl, s) == SubFrom(rl.pattern, rl.repl, s, 1)

\* s.replace(old, new), from position pos on
RECURSIVE ReplaceFrom(_, _, _, _)
ReplaceAfter(s, old, new, pos, starts) ==
    IF starts = {}
    THEN SubSeq(s, pos, Len(s))
    ELSE Pick({SubSeq(s, pos, first - 1) \o new
                   \o ReplaceFrom(s, old, new, first + Len(old)) :
                 first \in {CHOOSE k \in starts : \A q \in starts : k <= q}})

ReplaceFrom(s, old, new, pos) ==
    Pick({ReplaceAfter(t, old, new, q, starts) :
            t \in {s}, q \in {pos},
            starts \in {{k \in pos..Len(s) : HasAt(s, k, old)}}})

\* s.replace(old, new)
Replace(s, old, new) == ReplaceFrom(s, old, new, 1)

\* The five replace calls that open cleanup and do_type_cleanup.
Substituted(s) ==
    Pick({Replace(s4,
            "std::chrono::time_point<std::chrono::steady_clock, std::chrono::duration<long long, std::ratio<1L, 1000000000L> > >",
            "std::chrono::steady_clock::time_point") :
       s4 \in {Replace(s3,
                 "std::basic_string_view<char, std::char_traits<char> >",
                 "std::string_view") :
       s3 \in {Replace(s2,
                 "std::basic_string<char, std::char_traits<char>, std::allocator<char> >",
                 "std::string") :
       s2 \in {Replace(s1, "std::__ndk1::", "std::") :
       s1 \in {Replace(s, "std::__1::", "std::")}}}}})

\* A rule whose replacement keeps the second template and writes one blank
\* after the comma.
OneArgumentKept(x, y) ==
    [pattern |-> <<Lit(x), Lazy(1), Lit(","), Ws, Lit(y), Ref(1), Ws, Lit(">"),
                   Ws, Lit(">")>>,
     repl |-> <<Lit(x), Ref(1), Lit(", "), Lit(y), Ref(1), Lit(">>")>>]

\* r"X<(.+?),\s*Y<\1\s*>\s*>" -> r"X<\1>"
OneArgument(x, y) ==
    [pattern |-> <<Lit(x), Lazy(1), Lit(","), Ws, Lit(y), Ref(1), Ws, Lit(">"),
                   Ws, Lit(">")>>,
     repl |-> <<Lit(x), Ref(1), Lit(">")>>]

\* std::pair<const \1 in filters.py; (?:const\s*\1|\1\s*const) in
\* post_process.py
ConstKey(f) ==
    IF f = "cleanup"
    THEN <<Alt(<<Lit("const"), Ws, Ref(1)>>, <<Ref(1), Ws, Lit("const")>>)>>
    ELSE <<Lit("const "), Ref(1)>>

\* pattern_repl of cleanup (f = "cleanup") and of do_type_cleanup
pattern_repl(f) ==
    << OneArgument("std::unique_ptr<", "std::default_delete<"),
       OneArgument("std::vector<", "std::allocator<"),
       OneArgument("std::list<", "std::allocator<"),
       OneArgument("std::deque<", "std::allocator<"),
       OneArgument("std::queue<", "std::deque<"),
       [pattern |-> <<Lit("std::unordered_map<"), Lazy(1), Lit(","), Ws,
                      Lazy(2), Lit(","), Ws, Lit("std::hash<"), Ref(1), Ws,
                      Lit(">,"), Ws, Lit("std::equal_to<"), Ref(1), Ws,
                      Lit(">,"), Ws, Lit("std::allocator<std::pair<")>>
                    \o ConstKey(f)
                    \o <<Lit(","), Ws, Ref(2), Ws, Lit(">"), Ws, Lit(">"), Ws,
                         Lit(">")>>,
        repl |-> <<Lit("std::unordered_map<"), Ref(1), Lit(", "), Ref(2),
                   Lit(">")>>],
       [pattern |-> <<Lit("std::unordered_set<"), Lazy(1), Lit(","), Ws,
                      Lit("std::hash<"), Ref(1), Ws, Lit(">,"), Ws,
                      Lit("std::equal_to<"), Ref(1), Ws, Lit(">,"), Ws,
                      Lit("std::allocator<"), Ref(1), Ws, Lit(">"), Ws,
                      Lit(">")>>,
        repl |-> <<Lit("std::unordered_set<"), Ref(1), Lit(">")>>],
       [pattern |-> <<Lit("std::map<"), Lazy(1), Lit(","), Ws, Lazy(2),
                      Lit(","), Ws, Lit("std::less<"), Ref(1), Ws, Lit(">,"),
                      Ws, Lit("std::allocator<std::pair<")>>
                    \o ConstKey(f)
                    \o <<Lit(","), Ws, Ref(2), Ws, Lit(">"), Ws, Lit(">"), Ws,
                         Lit(">")>>,
        repl |-> <<Lit("std::map<"), Ref(1), Lit(", "), Ref(2), Lit(">")>>],
       [pattern |-> <<Lit("std::set<"), Lazy(1), Lit(","), Ws,
                      Lit("std::less<"), Ref(1), Ws, Lit(">,"), Ws,
                      Lit("std::allocator<"), Ref(1), Ws, Lit(">"), Ws,
                      Lit(">")>>,
        repl |-> <<Lit("std::set<"), Ref(1), Lit(">")>>],
       [pattern |-> <<Lit("gsl::span<"), Greedy(1), Lit(","), Ws, Digits,
                      Lit("UL>")>>,
        repl |-> <<Lit("gsl::span<"), Ref(1), Lit(">")>>],
       [pattern |-> <<Lit("glm::vec<"), Digit(1), Lit(","), Ws, Lit("float,"),
                      Ws, Lit("(glm::qualifier)0>")>>,
        repl |-> <<Lit("glm::vec"), Ref(1)>>],
       [pattern |-> <<Lit("glm::vec<"), Digit(1), Lit(","), Ws, Lit("int,"),
                      Ws, Lit("(glm::qualifier)0>")>>,
        repl |-> <<Lit("glm::ivec"), Ref(1)>>],
       [pattern |-> <<Lit("glm::mat<"), Digit(1), Lit(","), Ws, Digit(2),
                      Lit(","), Ws, Lit("float,"), Ws,
                      Lit("(glm::qualifier)0>")>>,
        repl |-> <<Lit("glm::mat"), Ref(1), Lit("x"), Ref(2)>>],
       [pattern |-> <<Lit("Bedrock::Result<"), Lazy(1), Lit(","), Ws,
                      Lit("std::error_code>")>>,
        repl |-> <<Lit("Bedrock::Result<"), Ref(1), Lit(">")>>] >>

\* cleanup(content) or do_type_cleanup(content) is entered: the five replace
\* calls, then the first pass of the loop starts with output = content.
Substitutions ==
    /\ cpc = "start"
    /\ content' = Substituted(content)
    /\ output' = content'
    /\ rule' = 1
    /\ cpc' = "pass"
    /\ UNCHANGED <<normaliser, results>>
    /\ UNCHANGED visitorVars
    /\ UNCHANGED templateVars
    /\ UNCHANGED filterVars

\* One turn of "for pattern, repl in pattern_repl":
\* output = re.sub(pattern, repl, output)
ApplyPattern ==
    /\ cpc = "pass"
    /\ rule <= Len(pattern_repl(normaliser))
    /\ output' = Sub(pattern_repl(normaliser)[rule], output)
    /\ rule' = rule + 1
    /\ UNCHANGED <<normaliser, content, cpc, results>>
    /\ UNCHANGED visitorVars
    /\ UNCHANGED templateVars
    /\ UNCHANGED filterVars

\* The pass changed nothing: break, return content.
Break ==
    /\ cpc = "pass"
    /\ rule > Len(pattern_repl(normaliser))
    /\ output = content
    /\ results' = Append(results, content)
    /\ cpc' = "returned"
    /\ UNCHANGED <<normaliser, content, output, rule>>
    /\ UNCHANGED visitorVars
    /\ UNCHANGED templateVars
    /\ UNCHANGED filterVars

\* The pass changed the string: content = output, and the next pass starts.
NextPass ==
    /\ cpc = "pass"
    /\ rule > Len(pattern_repl(normaliser))
    /\ output # content
    /\ content' = output
    /\ rule' = 1
    /\ UNCHANGED <<normaliser, output, cpc, results>>
    /\ UNCHANGED visitorVars
    /\ UNCHANGED templateVars
    /\ UNCHANGED filterVars

\* The caller hands the returned string to the same function once more.
CallAgain ==
    /\ cpc = "returned"
    /\ Len(results) < 2
    /\ content' = results[Len(results)]
    /\ cpc' = "start"
    /\ UNCHANGED <<normaliser, output, rule, results>>
    /\ UNCHANGED visitorVars
    /\ UNCHANGED templateVars
    /\ UNCHANGED filterVars

NextClean ==
    \/ Substitutions
    \/ ApplyPattern
    \/ Break
    \/ NextPass
    \/ CallAgain


-----------------------------------------------------------------------------
(* The initial states: the Visitor as constructed, over a DWARF context    *)
(* drawn from a family of DIE graphs.                                      *)

-----------------------------------------------------------------------------
(* filters.py: the namespace filters of the templates *)

\* do_ns_chain(ns): the namespaces from the outermost down to ns, the empty
\* list for None (0).
RECURSIVE do_ns_chain(_, _)
do_ns_chain(h, ns) ==
    IF ns = 0 THEN <<>> ELSE Append(do_ns_chain(h, h[ns].parent), ns)

\* The while loop of do_ns_actions: the first index (from 0) at which the
\* chains end or differ in (name, is_inline).
RECURSIVE CommonPrefix(_, _, _, _)
CommonPrefix(h, p, q, i) ==
    IF i < Len(p) /\ i < Len(q)
    THEN IF <<h[p[i + 1]].name, h[p[i + 1]].is_inline>>
                # <<h[q[i + 1]].name, h[q[i + 1]].is_inline>>
         THEN i
         ELSE CommonPrefix(h, p, q, i + 1)
    ELSE i

\* reversed(seq)
Reversed(seq) == [k \in 1..Len(seq) |-> seq[Len(seq) + 1 - k]]

\* Mutation of do_ns_actions: prev[i:] is closed in the order of the chain.
do_ns_actions_outermost_first(h, p, q) ==
    LET i == CommonPrefix(h, p, q, 0)
        closed == SubSeq(p, i + 1, Len(p))
        opened == SubSeq(q, i + 1, Len(q))
    IN  [k \in 1..Len(closed) |-> [kind |-> "close", namespace |-> closed[k]]]
          \o [k \in 1..Len(opened) |-> [kind |-> "open", namespace |-> opened[k]]]

\* do_ns_actions(prev, curr)
do_ns_actions(h, p, q) ==
    LET i == CommonPrefix(h, p, q, 0)
        closed == Reversed(SubSeq(p, i + 1, Len(p)))
        opened == SubSeq(q, i + 1, Len(q))
    IN  [k \in 1..Len(closed) |-> [kind |-> "close", namespace |-> closed[k]]]
          \o [k \in 1..Len(opened) |-> [kind |-> "open", namespace |-> opened[k]]]

\* The chains of two declarations' namespaces are taken; None is 0.
NsChainCall ==
    /\ fpc = "chain"
    /\ \E p \in 0..Len(heap), q \in 0..Len(heap) :
        /\ prev' = do_ns_chain(heap, p)
        /\ curr' = do_ns_chain(heap, q)
    /\ fpc' = "actions"
    /\ UNCHANGED <<actions, stack, applied>>
    /\ UNCHANGED visitorVars
    /\ UNCHANGED cleanVars
    /\ UNCHANGED templateVars

\* do_ns_actions is called; the namespaces of prev are the ones open.
NsActionsCall ==
    /\ fpc = "actions"
    /\ actions' = do_ns_actions(heap, prev, curr)
    /\ stack' = prev
    /\ applied' = 0
    /\ fpc' = "apply"
    /\ UNCHANGED <<prev, curr>>
    /\ UNCHANGED visitorVars
    /\ UNCHANGED cleanVars
    /\ UNCHANGED templateVars

\* The next action is applied: a close ends the innermost open namespace, an
\* open begins its namespace inside the open ones.
NsApply ==
    /\ fpc = "apply"
    /\ applied < Len(actions)
    /\ stack' = IF actions[applied + 1].kind = "close"
                THEN SubSeq(stack, 1, Len(stack) - 1)
                ELSE Append(stack, actions[applied + 1].namespace)
    /\ applied' = applied + 1
    /\ UNCHANGED <<prev, curr, actions, fpc>>
    /\ UNCHANGED visitorVars
    /\ UNCHANGED cleanVars
    /\ UNCHANGED templateVars

\* All actions have been applied.
NsDone ==
    /\ fpc = "apply"
    /\ applied = Len(actions)
    /\ fpc' = "done"
    /\ UNCHANGED <<prev, curr, actions, stack, applied>>
    /\ UNCHANGED visitorVars
    /\ UNCHANGED cleanVars
    /\ UNCHANGED templateVars

NextFilters == NsChainCall \/ NsActionsCall \/ NsApply \/ NsDone

\* No Name Normaliser call is under way.
CleanIdle ==
    /\ normaliser = "none"
    /\ content = ""
    /\ output = ""
    /\ rule = 1
    /\ cpc = "idle"
    /\ results = <<>>

\* No direct call of _register_template is to be made; _templates is empty.
TemplatesIdle ==
    /\ templates = EmptyMap
    /\ requests = <<>>
    /\ registered = <<>>

\* No namespace filter is under way.
FiltersIdle ==
    /\ prev = <<>>
    /\ curr = <<>>
    /\ actions = <<>>
    /\ stack = <<>>
    /\ applied = 0
    /\ fpc = "idle"

\* Visitor.__init__ over the context (the DIE graph ds and its units).
Constructed(ds, tus, cus) ==
    /\ dies = ds
    /\ type_units = tus
    /\ compile_units = cus
    /\ objects = [d \in 1..Len(ds) |-> 0]
    /\ heap = <<>>
    /\ files = <<>>
    /\ param_names = <<>>
    /\ functions = EmptyMap
    /\ error = NoError
    /\ pc = "visit"
    /\ tu = 1
    /\ cu = 1
    /\ fi = 1
    /\ yielded = <<>>
    /\ visitLog = <<>>
    /\ addLog = <<>>
    /\ pre = <<>>
    /\ ret = FALSE
    /\ CleanIdle
    /\ TemplatesIdle
    /\ FiltersIdle

\* A formal parameter child.
Formal(name, type) == [name |-> name, type |-> type, variadic |-> FALSE]

\* The five DIEs every graph starts with: a type unit (1) holding a function
\* (2) declared in /bx/z.h, a path that starts with base_dir without being
\* under it; a first compile unit (3); a second compile unit (4) holding a
\* function (5) declared under base_dir.
Units(tuMore, cu1dir, cu1children, cu2dir, cu2more) ==
    << [Die EXCEPT !.tag = "type_unit", !.unit = 1, !.short_name = "t.cpp",
                   !.children = <<2>> \o tuMore],
       [Die EXCEPT !.tag = "subprogram", !.unit = 1, !.parent = 1,
                   !.short_name = "h", !.decl_file = "/bx/z.h",
                   !.decl_line = 1],
       [Die EXCEPT !.tag = "compile_unit", !.unit = 3,
                   !.short_name = "/b/a.cpp", !.comp_dir = cu1dir,
                   !.children = cu1children],
       [Die EXCEPT !.tag = "compile_unit", !.unit = 4,
                   !.short_name = "/o/c.cpp", !.comp_dir = cu2dir,
                   !.children = <<5>> \o cu2more],
       [Die EXCEPT !.tag = "subprogram", !.unit = 4, !.parent = 4,
                   !.short_name = "k", !.decl_file = "/b/x.h",
                   !.decl_line = 9, !.type = "int"] >>

(* The bucket family: the first compile unit holds a run of declarations,  *)
(* all on line 1 of /b/x.h.                                                *)

\* The longest run of freely chosen declarations.
MaxVaried == 4

\* The longest run of further copies of one declaration after them.
MaxExtra == 5

BucketKinds ==
    {"f_inline", "f_noreturn", "f_inline_noreturn", "g", "v", "s", "s_aligned"}

BucketDie(kind) ==
    LET at == [Die EXCEPT !.unit = 3, !.parent = 3, !.decl_file = "/b/x.h",
                          !.decl_line = 1]
    IN  IF kind = "v"
        THEN [at EXCEPT !.tag = "variable", !.short_name = "v",
                        !.type = "int"]
        ELSE IF kind \in {"s", "s_aligned"}
        THEN [at EXCEPT !.tag = "structure_type", !.short_name = "S",
                        !.alignment = IF kind = "s" THEN None ELSE "8"]
        ELSE [at EXCEPT
                !.tag = "subprogram",
                !.short_name = IF kind = "g" THEN "g" ELSE "f",
                !.inline = IF kind \in {"f_inline", "f_inline_noreturn"}
                           THEN "DECLARED_INLINED" ELSE None,
                !.attrs = IF kind \in {"f_noreturn", "f_inline_noreturn"}
                          THEN {"DW_AT_noreturn"} ELSE {}]

BucketGraph(kinds, extra) ==
    Units(<<>>, "\\b\\w", [i \in 1..(Len(kinds) + extra) |-> 5 + i], "/o", <<>>)
      \o [i \in 1..Len(kinds) |-> BucketDie(kinds[i])]
      \o [i \in 1..extra |-> BucketDie("g")]

InitBucket ==
    \E n \in 0..MaxVaried :
        \E kinds \in [1..n -> BucketKinds] :
            \E extra \in 0..MaxExtra :
                Constructed(BucketGraph(kinds, extra), <<1>>, <<3, 4>>)

SpecBucket == InitBucket /\ [][Next]_vars

(* The class family: a type A with an in-class member function declaration *)
(* D (7), compiler-generated (artificial) or not, a data member declared   *)
(* outside base_dir (8), a nested type without a declaration file (9) and  *)
(* a data member without a declaration line (12); the out-of-class         *)
(* definition F (10) of D in the first compile unit, and a variable (11)   *)
(* whose path leaves base_dir through "..".                                *)

\* Where A lives: in the type unit, in the first compile unit before or
\* after F, in the second compile unit; or, with "top", D is not a member
\* of A but a direct child of the second compile unit.
Placements == {"tu", "first", "last", "cu2", "top"}

\* How the declaration D can be keyed: by its own linkage name, as an
\* external function without one, or not at all.
Linkages == {"linkage", "external", "none"}

ClassGraph(placement, cu2dir, tag, dname, dlink, dacc, dpn, fpn, fop, dart) ==
    LET home == CASE placement = "tu" -> 1
                  [] placement = "cu2" -> 4
                  [] OTHER -> 3
        A == IF placement \in {"tu", "cu2"} THEN <<>> ELSE <<6>>
    IN  Units(IF placement = "tu" THEN <<6>> ELSE <<>>,
              "/b",
              IF placement = "first" THEN <<6, 10, 11>>
              ELSE IF placement = "last" THEN <<10, 6, 11>>
              ELSE IF placement = "top" THEN <<6, 10, 11>>
              ELSE <<10, 11>>,
              cu2dir,
              IF placement = "cu2" THEN <<6>>
              ELSE IF placement = "top" THEN <<7>>
              ELSE <<>>)
        \o << [Die EXCEPT !.tag = tag, !.unit = home, !.parent = home,
                          !.short_name = "A", !.decl_file = "/b/x.h",
                          !.decl_line = 1,
                          !.children = IF placement = "top"
                                       THEN <<8, 9, 12>>
                                       ELSE <<7, 8, 9, 12>>],
              [Die EXCEPT !.tag = "subprogram",
                          !.unit = IF placement = "top" THEN 4 ELSE home,
                          !.parent = IF placement = "top" THEN 4 ELSE 6,
                          !.short_name = dname,
                          !.linkage_name = IF dlink = "linkage"
                                           THEN "_ZN1A1mEi" ELSE None,
                          !.external = dlink # "none",
                          !.artificial = dart,
                          !.object_pointer = fop,
                          !.accessibility = dacc,
                          !.type = IF dname = "A" THEN None ELSE "int",
                          !.attrs = {"DW_AT_declaration"},
                          !.decl_file = "/b/x.h", !.decl_line = 2,
                          !.params = <<Formal(dpn, "int")>>],
              [Die EXCEPT !.tag = "member", !.unit = home, !.parent = 6,
                          !.short_name = "m_x", !.type = "int",
                          !.decl_file = "/o/w.h", !.decl_line = 3],
              [Die EXCEPT !.tag = "structure_type", !.unit = home,
                          !.parent = 6, !.short_name = "N",
                          !.decl_line = 4],
              [Die EXCEPT !.tag = "subprogram", !.unit = 3, !.parent = 3,
                          !.short_name = dname,
                          !.linkage_name = IF dlink = "linkage"
                                           THEN "_ZN1A1mEi" ELSE "_ZN1AC2Ei",
                          !.spec = 7, !.object_pointer = fop,
                          !.decl_file = "/b/y.h", !.decl_line = 5,
                          !.params = <<Formal(fpn, "int")>>],
              [Die EXCEPT !.tag = "variable", !.unit = 3, !.parent = 3,
                          !.short_name = "gv", !.type = "int",
                          !.decl_file = "/b/../o/w.h", !.decl_line = 7],
              [Die EXCEPT !.tag = "member", !.unit = home, !.parent = 6,
                          !.short_name = "m_y", !.type = "int",
                          !.decl_file = "/b/x.h"] >>

Init ==
    \E placement \in Placements, cu2dir \in {"/b", "/o"},
       tag \in {"class_type", "structure_type", "union_type"},
       dname \in {"A", "m"}, dlink \in Linkages, dacc \in {None, PROTECTED},
       dpn \in {None, "a"}, fpn \in {None, "a", "b"},
       fop \in {"absent", "plain", "const"}, dart \in BOOLEAN :
        Constructed(ClassGraph(placement, cu2dir, tag, dname, dlink, dacc,
                               dpn, fpn, fop, dart),
                    <<1>>, <<3, 4>>)

Spec == Init /\ [][Next]_vars

(* The fatal family: graphs of the class family in which a child of the    *)
(* first compile unit (11) or of the second (5) may carry a tag that       *)
(* _handle_unit rejects, so that a traversal can fail after it has visited *)
(* units and recorded objects.                                             *)

FatalGraph(placement, cu2dir, dpn, fpn, fatal) ==
    LET g == ClassGraph(placement, cu2dir, "class_type", "m", "linkage", None,
                        dpn, fpn, "plain", FALSE)
    IN  IF fatal = "first" THEN [g EXCEPT ![11].tag = "lexical_block"]
        ELSE IF fatal = "second" THEN [g EXCEPT ![5].tag = "lexical_block"]
        ELSE g

InitFatal ==
    \E placement \in Placements, cu2dir \in {"/b", "/o"},
       dpn \in {None, "a"}, fpn \in {None, "a", "b"},
       fatal \in {"none", "first", "second"} :
        Constructed(FatalGraph(placement, cu2dir, dpn, fpn, fatal),
                    <<1>>, <<3, 4>>)

SpecFatal == InitFatal /\ [][Next]_vars

(* The count family: graphs of the class family in which the declaration  *)
(* D (7) and its definition F (10) each list up to MaxFormals parameters,  *)
(* named or not, and not necessarily as many as each other.                *)

\* The most formal parameters of a function.
MaxFormals == 2

\* The parameter lists of a function.
FormalLists ==
    UNION {[1..n -> {Formal(None, "int"), Formal("a", "int")}] :
              n \in 0..MaxFormals}

CountGraph(placement, cu2dir, dlink, dps, fps) ==
    LET g == ClassGraph(placement, cu2dir, "class_type", "m", dlink, None,
                        None, None, "plain", FALSE)
    IN  [g EXCEPT ![7].params = dps, ![10].params = fps]

InitCounts ==
    \E placement \in Placements, cu2dir \in {"/b", "/o"}, dlink \in Linkages,
       dps \in FormalLists, fps \in FormalLists :
        Constructed(CountGraph(placement, cu2dir, dlink, dps, fps),
                    <<1>>, <<3, 4>>)

SpecCounts == InitCounts /\ [][Next]_vars

(* The namespace family: a chain of nested namespaces in the first compile *)
(* unit, named or anonymous, the innermost holding a function.             *)

\* The longest chain of nested namespaces.
MaxDepth == 3

NamespaceGraph(names, exported) ==
    LET depth == Len(names)
    IN  Units(<<>>, "/b", <<6>>, "/o", <<>>)
          \o [i \in 1..depth |->
                [Die EXCEPT !.tag = "namespace", !.unit = 3,
                            !.parent = IF i = 1 THEN 3 ELSE 4 + i,
                            !.short_name = names[i],
                            !.attrs = IF exported[i]
                                      THEN {"DW_AT_export_symbols"} ELSE {},
                            !.children = <<6 + i>>]]
          \o << [Die EXCEPT !.tag = "subprogram", !.unit = 3,
                            !.parent = 5 + depth, !.short_name = "f",
                            !.decl_file = "/b/x.h", !.decl_line = 1] >>

InitNs ==
    \E depth \in 1..MaxDepth :
        \E names \in [1..depth -> {None, "a", "b"}] :
            \E exported \in [1..depth -> BOOLEAN] :
                Constructed(NamespaceGraph(names, exported), <<1>>, <<3, 4>>)

SpecNs == InitNs /\ [][Next]_vars

(* The member family: a type A in the first compile unit, declared on     *)
(* line 1 of /b/x.h, whose children are all declared on line 2.            *)

\* The longest run of freely chosen members; MaxExtra further copies of the
\* member function f may follow them.
MaxMembers == 3

MemberKinds ==
    {"m", "N", "f", "A", "A<char>", "~A", "operator bool", "operator=="}

MemberDie(kind) ==
    LET at == [Die EXCEPT !.unit = 3, !.parent = 6, !.decl_file = "/b/x.h",
                          !.decl_line = 2]
    IN  IF kind = "m"
        THEN [at EXCEPT !.tag = "member", !.short_name = "m", !.type = "int"]
        ELSE IF kind = "N"
        THEN [at EXCEPT !.tag = "structure_type", !.short_name = "N"]
        ELSE [at EXCEPT
                !.tag = "subprogram",
                !.short_name = kind,
                !.attrs = {"DW_AT_declaration"},
                !.type = IF kind \in {"A", "A<char>", "~A"} THEN None
                         ELSE IF kind = "f" THEN "int"
                         ELSE "bool"]

MemberGraph(tag, name, kinds, extra) ==
    Units(<<>>, "/b", <<6>>, "/o", <<>>)
      \o << [Die EXCEPT !.tag = tag, !.unit = 3, !.parent = 3,
                        !.short_name = name, !.decl_file = "/b/x.h",
                        !.decl_line = 1,
                        !.children = [i \in 1..(Len(kinds) + extra) |-> 6 + i]] >>
      \o [i \in 1..Len(kinds) |-> MemberDie(kinds[i])]
      \o [i \in 1..extra |-> MemberDie("f")]

InitMembers ==
    \E tag \in {"class_type", "structure_type"}, name \in {"A", "A<int>", None} :
        \E n \in 0..MaxMembers :
            \E kinds \in [1..n -> MemberKinds] :
                \E extra \in 0..MaxExtra :
                    Constructed(MemberGraph(tag, name, kinds, extra),
                                <<1>>, <<3, 4>>)

SpecMembers == InitMembers /\ [][Next]_vars

(* The twin family: the type A is described in both compile units, on     *)
(* line 1 of /b/x.h, with members that may differ; the members of the      *)
(* second description are all on line 2 or all on line 3.                  *)

\* The longest member list of a description.
MaxTwinMembers == 2

TwinGraph(cu2dir, kinds1, kinds2, line2) ==
    LET n1 == Len(kinds1)
        n2 == Len(kinds2)
        A == [Die EXCEPT !.tag = "structure_type", !.short_name = "A",
                         !.decl_file = "/b/x.h", !.decl_line = 1]
    IN  Units(<<>>, "/b", <<6>>, cu2dir, <<7>>)
          \o << [A EXCEPT !.unit = 3, !.parent = 3,
                          !.children = [i \in 1..n1 |-> 7 + i]],
                [A EXCEPT !.unit = 4, !.parent = 4,
                          !.children = [i \in 1..n2 |-> 7 + n1 + i]] >>
          \o [i \in 1..n1 |-> MemberDie(kinds1[i])]
          \o [i \in 1..n2 |-> [MemberDie(kinds2[i]) EXCEPT
                                  !.unit = 4, !.parent = 7,
                                  !.decl_line = line2]]

InitTwin ==
    \E cu2dir \in {"/b", "/o"}, line2 \in {2, 3} :
        \E n1 \in 0..MaxTwinMembers, n2 \in 0..MaxTwinMembers :
            \E kinds1 \in [1..n1 -> {"m", "f", "N"}],
               kinds2 \in [1..n2 -> {"m", "f", "N"}] :
                Constructed(TwinGraph(cu2dir, kinds1, kinds2, line2),
                            <<1>>, <<3, 4>>)

SpecTwin == InitTwin /\ [][Next]_vars

(* The scope family: two scopes X (6) and Y (7) in the first compile unit, *)
(* each a namespace or a type, and one declaration (8) that X, Y or both   *)
(* list among their children.  A DIE listed by two scopes is the one input *)
(* on which a second parent assignment is attempted.                       *)

ScopeTags == {"namespace", "structure_type", "class_type"}

ScopeGraph(xtag, ytag, listed, ctag, line) ==
    LET scope == [Die EXCEPT !.unit = 3, !.parent = 3]
        type == [scope EXCEPT !.decl_file = "/b/x.h"]
        X == [IF xtag = "namespace" THEN scope ELSE [type EXCEPT !.decl_line = 1]
                EXCEPT !.tag = xtag, !.short_name = "X",
                       !.children = IF listed = "second" THEN <<>> ELSE <<8>>]
        Y == [IF ytag = "namespace" THEN scope ELSE [type EXCEPT !.decl_line = 3]
                EXCEPT !.tag = ytag, !.short_name = "Y",
                       !.children = IF listed = "first" THEN <<>> ELSE <<8>>]
        c == [Die EXCEPT !.tag = ctag, !.unit = 3,
                !.parent = IF listed = "second" THEN 7 ELSE 6,
                !.short_name = IF ctag = "subprogram" THEN "f" ELSE "N",
                !.type = IF ctag = "subprogram" THEN "int" ELSE None,
                !.decl_file = "/b/x.h", !.decl_line = line]
    IN  Units(<<>>, "/b", <<6, 7>>, "/o", <<>>) \o <<X, Y, c>>

InitScopes ==
    \E xtag \in ScopeTags, ytag \in ScopeTags,
       listed \in {"first", "second", "both"},
       ctag \in {"subprogram", "structure_type"}, line \in {0, 2} :
        Constructed(ScopeGraph(xtag, ytag, listed, ctag, line), <<1>>, <<3, 4>>)

SpecScopes == InitScopes /\ [][Next]_vars

(* The templated family: a type (6) in the first compile unit, declared on *)
(* line 1 of /b/x.h, with a base class, a data member and a member         *)
(* function, each present or not, and up to MaxTemplateParams template     *)
(* parameters placed before or after them.                                 *)

\* The longest list of template parameters.
MaxTemplateParams == 2

TemplatedGraph(tag, name, alignment, based, fields, methods, tparams, tfirst) ==
    LET at == [Die EXCEPT !.unit = 3, !.parent = 6]
        kinds == (IF based THEN <<"base">> ELSE <<>>)
                   \o [i \in 1..fields |-> "m"] \o [i \in 1..methods |-> "f"]
        tps == [i \in 1..tparams |-> "T"]
        order == IF tfirst THEN tps \o kinds ELSE kinds \o tps
        child(k) ==
            IF k = "base"
            THEN [at EXCEPT !.tag = "inheritance", !.type = "B",
                            !.accessibility = PUBLIC]
            ELSE IF k = "T"
            THEN [at EXCEPT !.tag = "template_type_parameter",
                            !.short_name = "T", !.type = "int"]
            ELSE MemberDie(k)
    IN  Units(<<>>, "/b", <<6>>, "/o", <<>>)
          \o << [Die EXCEPT !.tag = tag, !.unit = 3, !.parent = 3,
                            !.short_name = name, !.alignment = alignment,
                            !.decl_file = "/b/x.h", !.decl_line = 1,
                            !.children = [i \in 1..Len(order) |-> 6 + i]] >>
          \o [i \in 1..Len(order) |-> child(order[i])]

InitTemplated ==
    \E tag \in {"class_type", "structure_type", "union_type"},
       name \in {"A", "A<int>", "A<B<int> >", None},
       alignment \in {None, "8"}, based \in BOOLEAN, fields \in 0..1,
       methods \in 0..1, tparams \in 0..MaxTemplateParams, tfirst \in BOOLEAN :
        Constructed(TemplatedGraph(tag, name, alignment, based, fields,
                                   methods, tparams, tfirst),
                    <<1>>, <<3, 4>>)

SpecTemplated == InitTemplated /\ [][Next]_vars

(* The tag family: a DIE U with one of the tags below, with or without a   *)
(* child, that the traversal reaches as a child of the first compile unit, *)
(* as a child of a namespace, or as the target of a using-declaration.     *)
(* As an import target U is an enumerator of an enumeration that follows   *)
(* the using-declaration, a child of the unit when its tag is one the unit *)
(* accepts, and otherwise a DIE of the second compile unit, which is not   *)
(* walked.                                                                 *)

\* Tags without a handler, the first three on _handle_unit's list of
\* ignored tags; structure_type has a handler.
ReachedTags ==
    {"base_type", "pointer_type", "label", "enumerator", "lexical_block",
     "template_alias", "structure_type"}

Ways == {"unit", "namespace", "import", "module"}

TagGraph(way, tag, inner) ==
    LET U == [Die EXCEPT !.tag = tag, !.unit = 3, !.short_name = "U",
                         !.const_value = IF tag = "enumerator"
                                         THEN "1" ELSE None,
                         !.decl_file = IF tag = "structure_type"
                                       THEN "/b/x.h" ELSE None,
                         !.decl_line = IF tag = "structure_type"
                                       THEN 3 ELSE 0]
        kid(parent) ==
            IF inner = "none" THEN <<>>
            ELSE IF inner = "function"
            THEN << [Die EXCEPT !.tag = "subprogram", !.unit = 3,
                                !.parent = parent, !.short_name = "g",
                                !.decl_file = "/b/x.h", !.decl_line = 5] >>
            ELSE << [Die EXCEPT !.tag = "template_type_parameter",
                                !.unit = 3, !.parent = parent,
                                !.short_name = "T", !.type = "int"] >>
        kids(first) == [i \in 1..Len(kid(0)) |-> first]
        using == [Die EXCEPT !.tag = "imported_declaration", !.unit = 3,
                             !.parent = 3, !.decl_file = "/b/x.h",
                             !.decl_line = 1]
    IN  IF way = "unit"
        THEN Units(<<>>, "/b", <<6>>, "/o", <<>>)
               \o << [U EXCEPT !.parent = 3, !.children = kids(7)] >>
               \o kid(6)
        ELSE IF way = "namespace"
        THEN Units(<<>>, "/b", <<6>>, "/o", <<>>)
               \o << [Die EXCEPT !.tag = "namespace", !.unit = 3,
                                 !.parent = 3, !.short_name = "N",
                                 !.children = <<7>>],
                     [U EXCEPT !.parent = 6, !.children = kids(8)] >>
               \o kid(7)
        ELSE IF way = "module"
        THEN Units(<<>>, "/b", <<6, 7>>, "/o", <<>>)
               \o << [using EXCEPT !.tag = "imported_module", !.import = 7],
                     [Die EXCEPT !.tag = "namespace", !.unit = 3,
                                 !.parent = 3, !.short_name = "N",
                                 !.children = <<8>>],
                     [U EXCEPT !.parent = 7, !.children = kids(9)] >>
               \o kid(8)
        ELSE IF tag = "enumerator"
        THEN Units(<<>>, "/b", <<6, 7>>, "/o", <<>>)
               \o << [using EXCEPT !.import = 8],
                     [Die EXCEPT !.tag = "enumeration_type", !.unit = 3,
                                 !.parent = 3, !.short_name = "E",
                                 !.decl_file = "/b/x.h", !.decl_line = 2,
                                 !.children = <<8>>],
                     [U EXCEPT !.parent = 7, !.children = kids(9)] >>
               \o kid(8)
        ELSE IF tag \in IgnoredUnitTags \cup {"structure_type"}
        THEN Units(<<>>, "/b", <<6, 7>>, "/o", <<>>)
               \o << [using EXCEPT !.import = 7],
                     [U EXCEPT !.parent = 3, !.children = kids(8)] >>
               \o kid(7)
        ELSE Units(<<>>, "/b", <<6>>, "/o", <<7>>)
               \o << [using EXCEPT !.import = 7],
                     [U EXCEPT !.unit = 4, !.parent = 4,
                               !.children = kids(8)] >>
               \o kid(7)

InitTags ==
    \E way \in Ways, tag \in ReachedTags,
       inner \in {"none", "function", "parameter"} :
        /\ tag = "enumerator" => inner = "none"
        /\ Constructed(TagGraph(way, tag, inner), <<1>>, <<3, 4>>)

SpecTags == InitTags /\ [][Next]_vars

(* Direct calls of Function.merge: two objects, the first a Function.      *)

\* The longest parameter list.
MaxParams == 2

ParameterChoices ==
    {Parameter(None, "int", POSITIONAL), Parameter("x", "int", POSITIONAL),
     Parameter("y", "int", POSITIONAL), Parameter(None, "long", POSITIONAL),
     Parameter(None, "int", VARIADIC)}

\* Functions that differ in name, return type or parameters.
SignatureChoices ==
    {NewFunction(name, returns, FALSE, 0) :
        name \in {"f", "g"}, returns \in {"void", "int"}}
      \cup UNION {{[NewFunction("f", "void", FALSE, 0) EXCEPT !.parameters = ps] :
                      ps \in [1..n -> ParameterChoices]} : n \in 1..MaxParams}

\* Functions of one signature that differ in a flag or in virtuality.
FlagChoices ==
    {[NewFunction("f", "void", flags[6], 0) EXCEPT
          !.noreturn = flags[1], !.is_explicit = flags[2],
          !.is_deleted = flags[3], !.is_inline = flags[4],
          !.is_static = flags[5]] : flags \in [1..6 -> BOOLEAN]}
      \cup {[NewFunction("f", "void", FALSE, 0) EXCEPT !.virtuality = virt] :
               virt \in {"virtual", "pure_virtual"}}

InitMerge ==
    \E a \in SignatureChoices \cup FlagChoices :
        \E b \in SignatureChoices \cup FlagChoices \cup {NewAttribute("f", 0)} :
            /\ dies = <<>>
            /\ type_units = <<>>
            /\ compile_units = <<>>
            /\ objects = <<>>
            /\ heap = <<a, b>>
            /\ files = <<>>
            /\ param_names = <<>>
            /\ functions = EmptyMap
            /\ error = NoError
            /\ pc = "call"
            /\ tu = 1
            /\ cu = 1
            /\ fi = 1
            /\ yielded = <<>>
            /\ visitLog = <<>>
            /\ addLog = <<>>
            /\ pre = <<>>
            /\ ret = FALSE
            /\ CleanIdle
            /\ TemplatesIdle
            /\ FiltersIdle

NextMerge == MergeCall

SpecMerge == InitMerge /\ [][NextMerge]_vars

(* Direct calls of Struct.merge: the first two objects are the types, the   *)
(* others the members their lines hold.  Line 2 is held by both (self's    *)
(* members first on the heap), line 3 by self only, line 4 by other only.  *)

\* The longest members list of self and of other on the shared line.
MaxMine == 3
MaxTheirs == 2

MemberChoices ==
    { [NewFunction("f", "void", FALSE, 0) EXCEPT !.is_inline = TRUE],
      NewFunction("f", "void", FALSE, 0),
      NewFunction("g", "void", FALSE, 0),
      [NewAttribute("v", 0) EXCEPT !.type = "int"] }

\* How other differs from self in what Struct.merge compares.
Headers == {"same", "kind", "name", "bases"}

StructPair(header, alignments, mine, theirs, own) ==
    LET m == Len(mine)
        t == Len(theirs)
        self == [NewStruct("struct", "A", 0) EXCEPT
                   !.alignment = alignments[1],
                   !.members = (2 :> [i \in 1..m |-> 2 + i])
                                 @@ (3 :> <<3 + m + t>>)]
        other == [NewStruct(IF header = "kind" THEN "class" ELSE "struct",
                            IF header = "name" THEN "B" ELSE "A", 0) EXCEPT
                    !.alignment = alignments[2],
                    !.bases = IF header = "bases"
                              THEN << <<"X", PUBLIC>> >> ELSE <<>>,
                    !.members = IF own
                                THEN (2 :> [i \in 1..t |-> 2 + m + i])
                                       @@ (4 :> <<4 + m + t>>)
                                ELSE (2 :> [i \in 1..t |-> 2 + m + i])]
    IN  <<self, other>> \o mine \o theirs
          \o << NewFunction("g", "void", FALSE, 0),
                NewFunction("h", "void", FALSE, 0) >>

InitStructMerge ==
    \E header \in Headers, own \in BOOLEAN,
       alignments \in {<<None, None>>, <<None, "4">>, <<"8", None>>,
                       <<"8", "4">>} :
        \E m \in 0..MaxMine, t \in 0..MaxTheirs :
            \E mine \in [1..m -> MemberChoices],
               theirs \in [1..t -> MemberChoices] :
                /\ dies = <<>>
                /\ type_units = <<>>
                /\ compile_units = <<>>
                /\ objects = <<>>
                /\ heap = StructPair(header, alignments, mine, theirs, own)
                /\ files = <<>>
                /\ param_names = <<>>
                /\ functions = EmptyMap
                /\ error = NoError
                /\ pc = "call"
                /\ tu = 1
                /\ cu = 1
                /\ fi = 1
                /\ yielded = <<>>
                /\ visitLog = <<>>
                /\ addLog = <<>>
                /\ pre = <<>>
                /\ ret = FALSE
                /\ CleanIdle
                /\ TemplatesIdle
                /\ FiltersIdle

SpecStructMerge == InitStructMerge /\ [][NextMerge]_vars

(* Direct calls of merge on two objects of any class: the heap holds self  *)
(* (1), other (2), the two member functions (3, 4) that the types hold on  *)
(* line 2 and the two declarations (5, 6) that the templates wrap.         *)

AttributeChoices ==
    {[NewAttribute(name, 0) EXCEPT !.type = type, !.default_value = value,
                                   !.alignment = alignment,
                                   !.is_static = static] :
        name \in {"v", "w"}, type \in {"int", "long"}, value \in {None, "1"},
        alignment \in {None, "4"}, static \in BOOLEAN}

FunctionChoices ==
    {[f EXCEPT !.is_inline = inline] :
        f \in SignatureChoices, inline \in BOOLEAN}

StructChoices ==
    {[NewStruct(kind, name, 0) EXCEPT !.bases = bases,
                                      !.alignment = alignment,
                                      !.members = members] :
        kind \in StructKinds, name \in {"A", "B"},
        bases \in {<<>>, << <<"X", PUBLIC>> >>}, alignment \in {None, "8"},
        members \in {EmptyMap, 2 :> <<3>>, 2 :> <<4>>}}

TemplateParameterChoices ==
    {[TemplateParameter(name, "type", None, arg) EXCEPT !.default = default] :
        name \in {"T", "U"}, arg \in {None, "int"}, default \in {None, "int"}}

WrapperChoices ==
    {NewTemplate(d, ps) :
        d \in {0, 5, 6},
        ps \in {<<>>} \cup [1..1 -> TemplateParameterChoices]
                      \cup [1..2 -> TemplateParameterChoices]}

MergeChoices ==
    AttributeChoices \cup FunctionChoices \cup StructChoices
        \cup WrapperChoices

InitAnyMerge ==
    \E a \in MergeChoices, b \in MergeChoices :
        /\ dies = <<>>
        /\ type_units = <<>>
        /\ compile_units = <<>>
        /\ objects = <<>>
        /\ heap = <<a, b,
                    NewFunction("f", "void", FALSE, 0),
                    [NewFunction("f", "void", FALSE, 0) EXCEPT
                        !.is_inline = TRUE],
                    [NewStruct("struct", "S", 0) EXCEPT !.is_declaration = TRUE],
                    [NewStruct("class", "S", 0) EXCEPT !.is_declaration = TRUE]>>
        /\ files = <<>>
        /\ param_names = <<>>
        /\ functions = EmptyMap
        /\ error = NoError
        /\ pc = "call"
        /\ tu = 1
        /\ cu = 1
        /\ fi = 1
        /\ yielded = <<>>
        /\ visitLog = <<>>
        /\ addLog = <<>>
        /\ pre = <<>>
        /\ ret = FALSE
        /\ CleanIdle
        /\ TemplatesIdle
        /\ FiltersIdle

SpecAnyMerge == InitAnyMerge /\ [][NextMerge]_vars

(* Direct calls of _register_template: the heap holds two declarations    *)
(* (1, 2) and then the Template of each call, in the order of the calls.   *)

\* The longest sequence of calls.
MaxCalls == 3

\* The Templates handed over: of the declaration S, of the declaration T or
\* of none, without parameters or with one type parameter bound to int or to
\* char.
TemplateChoices ==
    {NewTemplate(d, ps) :
        d \in 0..2,
        ps \in {<<>>,
                <<TemplateParameter("T", "type", None, "int")>>,
                <<TemplateParameter("T", "type", None, "char")>>}}

InitRegister ==
    \E n \in 1..MaxCalls :
        \E ts \in [1..n -> TemplateChoices], ls \in [1..n -> {1, 2}] :
            /\ dies = <<>>
            /\ type_units = <<>>
            /\ compile_units = <<>>
            /\ objects = <<>>
            /\ heap = << [NewStruct("struct", "S", 0) EXCEPT
                            !.is_declaration = TRUE],
                         [NewStruct("struct", "T", 0) EXCEPT
                            !.is_declaration = TRUE] >> \o ts
            /\ files = <<>>
            /\ param_names = <<>>
            /\ functions = EmptyMap
            /\ error = NoError
            /\ pc = "register"
            /\ tu = 1
            /\ cu = 1
            /\ fi = 1
            /\ yielded = <<>>
            /\ visitLog = <<>>
            /\ addLog = <<>>
            /\ pre = <<>>
            /\ ret = FALSE
            /\ CleanIdle
            /\ FiltersIdle
            /\ templates = EmptyMap
            /\ requests = [i \in 1..n |->
                              [key |-> "/b/x.h", lineno |-> ls[i],
                               template |-> 2 + i]]
            /\ registered = <<>>

SpecRegister == InitRegister /\ [][NextRegister]_vars

\* The strings handed to the Name Normaliser: runs of the namespace tokens
\* the replace calls look for, and instances of the templates the pattern
\* rules look for, over two argument names, with and without the optional
\* blanks, with matching and mismatching repeated arguments, and nested.
MaxTokens == 4

Tokens == {"std::", "__1::", "__ndk1::", "x"}

RECURSIVE TokenStrings(_)
TokenStrings(n) ==
    IF n = 0 THEN {""}
    ELSE LET shorter == TokenStrings(n - 1)
         IN  shorter \cup {s \o t : s \in shorter, t \in Tokens}

Atoms == {"int", "char"}

Blanks == {"", " "}

OneArgumentNames ==
    { <<"std::unique_ptr<", "std::default_delete<">>,
      <<"std::vector<", "std::allocator<">>,
      <<"std::list<", "std::allocator<">>,
      <<"std::deque<", "std::allocator<">>,
      <<"std::queue<", "std::deque<">> }

OneArgumentForms ==
    {p[1] \o a \o "," \o sp \o p[2] \o b \o sp \o ">" \o sp \o ">" :
        p \in OneArgumentNames, a \in Atoms, b \in Atoms, sp \in Blanks}

ConstKeys(a) == {"const " \o a, "const" \o a, a \o " const", a}

MapForms ==
    {"std::map<" \o a \o ", " \o b \o ", std::less<" \o a
        \o ">, std::allocator<std::pair<" \o k \o ", " \o b \o "> > >" :
        a \in Atoms, b \in Atoms, k \in ConstKeys("int")}
    \cup
    {"std::unordered_map<" \o a \o ", " \o b \o ", std::hash<" \o a
        \o ">, std::equal_to<" \o a \o ">, std::allocator<std::pair<" \o k
        \o ", " \o b \o "> > >" :
        a \in Atoms, b \in Atoms, k \in ConstKeys("int")}

SetForms ==
    {"std::set<" \o a \o ", std::less<" \o a \o ">, std::allocator<" \o b
        \o "> >" : a \in Atoms, b \in Atoms}
    \cup
    {"std::unordered_set<" \o a \o ", std::hash<" \o a
        \o ">, std::equal_to<" \o a \o ">, std::allocator<" \o b \o "> >" :
        a \in Atoms, b \in Atoms}

OtherForms ==
    {"gsl::span<" \o a \o "," \o sp \o n \o "UL>" :
        a \in Atoms, sp \in Blanks, n \in {"3", "18446744073709551615"}}
    \cup {"glm::vec<" \o n \o ", " \o t \o ", (glm::qualifier)0>" :
            n \in {"2", "3"}, t \in {"float", "int", "double"}}
    \cup {"glm::mat<" \o n \o ", 4, float, (glm::qualifier)0>" :
            n \in {"3", "44"}}
    \cup {"Bedrock::Result<" \o a \o "," \o sp \o "std::error_code>" :
            a \in Atoms \cup {"void"}, sp \in Blanks}

Nested(fs) ==
    {"std::vector<" \o f \o ", std::allocator<" \o f \o " > >" : f \in fs}

LongNames ==
    { "std::__1::basic_string<char, std::__1::char_traits<char>, std::__1::allocator<char> >",
      "std::__ndk1::basic_string_view<char, std::__ndk1::char_traits<char> >",
      "std::vector<std::__1::basic_string<char, std::__1::char_traits<char>, std::__1::allocator<char> >, std::__1::allocator<std::__1::basic_string<char, std::__1::char_traits<char>, std::__1::allocator<char> > > >",
      "std::chrono::time_point<std::chrono::steady_clock, std::chrono::duration<long long, std::ratio<1L, 1000000000L> > >",
      "gsl::span<gsl::span<int, 3UL>, 4UL> x; gsl::span<char, 5UL>",
      "std::unique_ptr<A, std::default_delete<A> > a; std::unique_ptr<B, std::default_delete<B> > b" }

Inputs ==
    TokenStrings(MaxTokens) \cup OneArgumentForms \cup MapForms \cup SetForms
        \cup OtherForms
        \cup Nested({"int", "std::vector<int, std::allocator<int> >",
                     "gsl::span<int, 3UL>",
                     "std::set<int, std::less<int>, std::allocator<int> >"})
        \cup LongNames

\* A call of cleanup or of do_type_cleanup on one of the inputs.
InitClean ==
    \E f \in {"cleanup", "do_type_cleanup"} :
        \E s \in Inputs :
            /\ dies = <<>>
            /\ type_units = <<>>
            /\ compile_units = <<>>
            /\ objects = <<>>
            /\ heap = <<>>
            /\ files = <<>>
            /\ param_names = <<>>
            /\ functions = EmptyMap
            /\ error = NoError
            /\ pc = "idle"
            /\ tu = 1
            /\ cu = 1
            /\ fi = 1
            /\ yielded = <<>>
            /\ visitLog = <<>>
            /\ addLog = <<>>
            /\ pre = <<>>
            /\ ret = FALSE
            /\ normaliser = f
            /\ content = s
            /\ output = ""
            /\ rule = 1
            /\ cpc = "start"
            /\ results = <<>>
            /\ TemplatesIdle
            /\ FiltersIdle

SpecClean == InitClean /\ [][NextClean]_vars

\* The body of cleanup is sequential code: a step that can be taken is taken.
SpecCleanFair == SpecClean /\ WF_vars(NextClean)

(* The filter family: a forest of namespaces, each the child of an earlier *)
(* one or of none; the filters are called for two of them, or for None.    *)

\* The most namespaces of the forest.
MaxNamespaces == 4

\* The (name, is_inline) pairs of the namespaces.
NamespaceLooks == {<<"a", FALSE>>, <<"a", TRUE>>, <<"b", FALSE>>}

InitFilters ==
    \E n \in 1..MaxNamespaces :
        \E looks \in [1..n -> NamespaceLooks], parents \in [1..n -> 0..(n - 1)] :
            /\ \A k \in 1..n : parents[k] < k
            /\ dies = <<>>
            /\ type_units = <<>>
            /\ compile_units = <<>>
            /\ objects = <<>>
            /\ heap = [k \in 1..n |->
                          [NewNamespace(looks[k][1], 0) EXCEPT
                              !.is_inline = looks[k][2],
                              !.parent = parents[k]]]
            /\ files = <<>>
            /\ param_names = <<>>
            /\ functions = EmptyMap
            /\ error = NoError
            /\ pc = "idle"
            /\ tu = 1
            /\ cu = 1
            /\ fi = 1
            /\ yielded = <<>>
            /\ visitLog = <<>>
            /\ addLog = <<>>
            /\ pre = <<>>
            /\ ret = FALSE
            /\ CleanIdle
            /\ TemplatesIdle
            /\ prev = <<>>
            /\ curr = <<>>
            /\ actions = <<>>
            /\ stack = <<>>
            /\ applied = 0
            /\ fpc = "chain"

SpecFilters == InitFilters /\ [][NextFilters]_vars

-----------------------------------------------------------------------------
(* Properties                                                              *)

\* The k-th file of the Visitor has been yielded by Visitor.files.
IsYielded(k) ==
    /\ pc \in {"files", "done"}
    /\ k < fi
    /\ ~StartsWith(RelPath(files[k].key), "../")

\* The objects passed to _add for (file, line), in arrival order.
AddsAt(file, line) ==
    LET es == SelectSeq(addLog, LAMBDA e : e.file = file /\ e.line = line)
    IN  [i \in 1..Len(es) |-> es[i].obj]

\* C1: in every line bucket of every yielded file no two elements compare
\* equal under structural equality.
C1_NoEqualElements ==
    \A k \in 1..Len(files) :
        IsYielded(k) =>
            \A l \in 1..Len(files[k].lines) :
                LET items == files[k].lines[l].items
                IN  \A i, j \in 1..Len(items) :
                        i < j => ~ObjEq(heap, items[i], items[j])

\* C2: in every line bucket of every yielded file no element would absorb
\* its right neighbour: a.merge(b) fails for every adjacent pair (a, b).
C2_FullyReduced ==
    \A k \in 1..Len(files) :
        IsYielded(k) =>
            \A l \in 1..Len(files[k].lines) :
                LET items == files[k].lines[l].items
                IN  \A i \in 1..(Len(items) - 1) :
                        ~Merge(heap, items[i], items[i + 1]).ok

\* A yielded bucket of several elements, one of which absorbed another
\* object: it is noreturn although its own DIE is not.
C2_Witness ==
    \E k \in 1..Len(files) :
        /\ IsYielded(k)
        /\ \E l \in 1..Len(files[k].lines) :
              LET items == files[k].lines[l].items
              IN  /\ Len(items) >= 2
                  /\ \E i \in 1..Len(items) :
                        /\ heap[items[i]].kind = "function"
                        /\ heap[items[i]].noreturn
                        /\ "DW_AT_noreturn" \notin dies[heap[items[i]].die].attrs

\* C3: a file-level line bucket never holds more than 8 objects, and until
\* the bucket is reduced it is the first 8 objects passed to _add for its
\* (file, line), in arrival order.
C3_FileBucketCap ==
    \A k \in 1..Len(files) :
        \A l \in 1..Len(files[k].lines) :
            LET items == files[k].lines[l].items
                adds == AddsAt(files[k].key, files[k].lines[l].key)
            IN  /\ Len(items) <= 8
                /\ (pc = "visit" \/ k >= fi) =>
                      items = IF Len(adds) <= 8 THEN adds
                              ELSE SubSeq(adds, 1, 8)

\* More than 8 objects were passed to _add for one (file, line) and the
\* bucket holds 8.
C3_Witness ==
    \E k \in 1..Len(files) :
        \E l \in 1..Len(files[k].lines) :
            /\ Len(files[k].lines[l].items) = 8
            /\ Len(AddsAt(files[k].key, files[k].lines[l].key)) > 8

\* The DIE tags _handle_struct serves.
StructTags == {"class_type", "structure_type", "union_type"}

\* The out-of-class definitions of in-class declarations for which both
\* Functions were built.
Definitions ==
    {d \in 1..Len(dies) :
        /\ dies[d].tag = "subprogram"
        /\ dies[d].spec # 0
        /\ objects[d] # 0
        /\ objects[dies[d].spec] # 0
        /\ dies[dies[dies[d].spec].parent].tag \in StructTags}

\* The names a DIE gives its formal parameters, and an object's.
DieNames(d) == [i \in 1..Len(dies[d].params) |-> dies[d].params[i].name]
ObjNames(o) ==
    [i \in 1..Len(heap[o].parameters) |-> heap[o].parameters[i].name]

\* C4 as stated: after Visitor.files has run, the declaration's and the
\* definition's parameter-name lists are identical, and each position holds
\* a name observed at an occurrence whenever an occurrence names it.
C4_IdenticalNames ==
    pc = "done" =>
        \A d \in Definitions :
            LET decl == dies[d].spec
                names == ObjNames(objects[decl])
            IN  /\ names = ObjNames(objects[d])
                /\ \A i \in 1..Len(names) :
                      LET seen == {DieNames(decl)[i], DieNames(d)[i]} \ {None}
                      IN  IF seen = {} THEN names[i] = None
                          ELSE names[i] \in seen

\* C4, amended: after Visitor.files has run, each of the two Functions
\* keeps the names its own DIE gives; a position the declaration leaves
\* unnamed takes the definition's name; a position the definition leaves
\* unnamed takes the declaration's name when the declaration carries a
\* linkage name (it is then registered under the definition's key) and
\* stays unnamed otherwise.
C4_BackFilledNames ==
    pc = "done" =>
        \A d \in Definitions :
            LET decl == dies[d].spec
                own == DieNames(decl)
                def == DieNames(d)
            IN  /\ ObjNames(objects[decl]) =
                      [i \in 1..Len(own) |->
                          IF own[i] # None THEN own[i] ELSE def[i]]
                /\ ObjNames(objects[d]) =
                      [i \in 1..Len(def) |->
                          IF def[i] # None THEN def[i]
                          ELSE IF Truthy(dies[decl].linkage_name) THEN own[i]
                          ELSE None]

\* Visitor.files has run and a declaration whose DIE names no parameter
\* carries the name its definition gives.
C4_Witness ==
    /\ pc = "done"
    /\ \E d \in Definitions :
          /\ DieNames(dies[d].spec) = <<None>>
          /\ DieNames(d) = <<"b">>
          /\ ObjNames(objects[dies[d].spec]) = <<"b">>

\* C6: every member of a Class built from a DIE without an accessibility
\* attribute has access private, every such member of a Struct or Union has
\* access public, and a member whose DIE has the attribute keeps its value.
C6_MemberAccess ==
    \A s \in 1..Len(heap) :
        heap[s].kind \in StructKinds =>
            \A line \in DOMAIN heap[s].members :
                \A i \in 1..Len(heap[s].members[line]) :
                    LET m == heap[s].members[line][i]
                        explicit == dies[heap[m].die].accessibility
                    IN  heap[m].access =
                            IF explicit # None THEN explicit
                            ELSE IF heap[s].kind = "class" THEN PRIVATE
                            ELSE PUBLIC

\* A Class holds a member whose DIE has no accessibility attribute.
C6_Witness ==
    \E s \in 1..Len(heap) :
        /\ heap[s].kind = "class"
        /\ \E line \in DOMAIN heap[s].members :
              \E i \in 1..Len(heap[s].members[line]) :
                  LET m == heap[s].members[line][i]
                  IN  /\ dies[heap[m].die].accessibility = None
                      /\ heap[m].access = PRIVATE

\* C7: after the traversal the Function of a subprogram DIE that carries
\* DW_AT_specification has the declaration's scoped name, and its returns
\* and is_const are those of the declaration's Function.
C7_DefinitionFollowsDeclaration ==
    pc = "done" =>
        \A d \in 1..Len(dies) :
            (dies[d].spec # 0 /\ objects[d] # 0) =>
                LET f == heap[objects[d]]
                    decl == heap[objects[dies[d].spec]]
                IN  /\ f.name = ScopedName(dies[d].spec)
                    /\ f.returns = decl.returns
                    /\ f.is_const = decl.is_const

\* The path is that of a file under base_dir.
UnderBaseDir(path) ==
    /\ path # None
    /\ ~StartsWith(RelPath(NormPath(Slashes(path))), "../")

\* The object o with everything its members buckets hold, at any depth.
RECURSIVE Contents(_, _)
Contents(h, o) ==
    IF h[o].kind \in StructKinds
    THEN {o} \cup UNION {UNION {Contents(h, h[o].members[line][i]) :
                                   i \in 1..Len(h[o].members[line])} :
                            line \in DOMAIN h[o].members}
    ELSE {o}

\* C9: every object in a line bucket of a yielded file, file-level or a
\* struct's members bucket, was built from a DIE that has a decl_file under
\* base_dir and a decl_line other than zero.
C9_OnlyLocatedObjects ==
    \A k \in 1..Len(files) :
        IsYielded(k) =>
            \A l \in 1..Len(files[k].lines) :
                \A i \in 1..Len(files[k].lines[l].items) :
                    \A o \in Contents(heap, files[k].lines[l].items[i]) :
                        /\ UnderBaseDir(dies[heap[o].die].decl_file)
                        /\ dies[heap[o].die].decl_line # 0

\* The compile units whose compilation directory, backslashes read as
\* slashes, does not start with base_dir.
Skipped ==
    {c \in 1..Len(dies) :
        /\ dies[c].tag = "compile_unit"
        /\ ~StartsWith(Slashes(dies[c].comp_dir), BaseDir)}

\* The type units come before the compile units in the order of visits.
TypeUnitsFirst ==
    \A i, j \in 1..Len(visitLog) :
        (dies[visitLog[i]].tag = "compile_unit"
            /\ dies[visitLog[j]].tag = "type_unit") => j < i

FlagsOf(f) ==
    <<f.noreturn, f.is_explicit, f.is_deleted, f.is_inline, f.is_static,
      f.is_const>>

\* C5: a.merge(b) on a Function a succeeds exactly when b is a Function of
\* the same name, return type and parameter count whose parameters agree
\* position by position in type and kind; on success every parameter keeps
\* its name when it has one and takes b's otherwise, every boolean flag is
\* the OR of both sides, and virtuality is a's when set and b's otherwise.
C5_FunctionMerge ==
    pc = "returned" =>
        LET a == pre[1]
            b == pre[2]
            r == heap[1]
            match == /\ b.kind = "function"
                     /\ a.name = b.name
                     /\ a.returns = b.returns
                     /\ Len(a.parameters) = Len(b.parameters)
                     /\ \A i \in 1..Len(a.parameters) :
                           /\ a.parameters[i].type = b.parameters[i].type
                           /\ a.parameters[i].kind = b.parameters[i].kind
        IN  /\ ret = match
            /\ ret =>
                  /\ Len(r.parameters) = Len(a.parameters)
                  /\ \A i \in 1..Len(a.parameters) :
                        r.parameters[i].name =
                            IF a.parameters[i].name # None
                            THEN a.parameters[i].name
                            ELSE b.parameters[i].name
                  /\ \A i \in 1..6 : FlagsOf(r)[i] = (FlagsOf(a)[i] \/ FlagsOf(b)[i])
                  /\ r.virtuality = IF a.virtuality # None THEN a.virtuality
                                    ELSE b.virtuality

\* The merge of the names ["x", None] with [None, "y"] returned True and
\* left ["x", "y"].
C5_Witness ==
    /\ pc = "returned"
    /\ ret
    /\ Len(pre[1].parameters) = 2
    /\ pre[1].parameters[1].name = "x" /\ pre[1].parameters[2].name = None
    /\ pre[2].parameters[1].name = None /\ pre[2].parameters[2].name = "y"
    /\ heap[1].parameters[1].name = "x" /\ heap[1].parameters[2].name = "y"

\* The names of the chain of namespaces that ends at n, from the outermost
\* named one down, joined by "::"; an anonymous namespace has no name to
\* contribute.
RECURSIVE ChainOfNames(_, _)
ChainOfNames(h, n) ==
    LET up == IF h[n].parent = 0 THEN "" ELSE ChainOfNames(h, h[n].parent)
    IN  IF h[n].name = None THEN up
        ELSE IF up = "" THEN h[n].name
        ELSE up \o "::" \o h[n].name

\* C8: the qualified_name of every Namespace is the "::"-joined chain of
\* the names from the outermost named ancestor down to the namespace.
C8_QualifiedName ==
    \A n \in 1..Len(heap) :
        heap[n].kind = "namespace" =>
            qualified_name(heap, n) = ChainOfNames(heap, n)

\* C11: the Name Normaliser is idempotent: the string returned by a second
\* call of cleanup (or of do_type_cleanup) on the string returned by the
\* first call is that same string.
C11_Idempotent ==
    (cpc = "returned" /\ Len(results) = 2) => results[2] = results[1]

\* C20: every turn of the pattern loop that changes the string strictly
\* shortens it, and every call of the normaliser returns.
C20_LoopTerminates ==
    /\ [][(cpc = "pass" /\ cpc' = "pass" /\ output' # output)
            => Len(output') < Len(output)]_vars
    /\ (cpc = "start") ~> (cpc = "returned")

\* A pass that ends with a string the rules have changed and shortened, so
\* that the loop goes round once more.
C20_Witness ==
    /\ cpc = "pass"
    /\ rule > Len(pattern_repl(normaliser))
    /\ output # content
    /\ Len(output) < Len(content)

\* C12: a struct's members bucket for one declaration line never holds more
\* than 4 entries.
C12_MemberBucketCap ==
    \A s \in 1..Len(heap) :
        heap[s].kind \in StructKinds =>
            \A line \in DOMAIN heap[s].members :
                Len(heap[s].members[line]) <= 4

\* The number of times the tag handler of DIE d has been entered.
Dispatches(d) == Cardinality({i \in 1..Len(visitLog) : visitLog[i] = d})

\* C13 as stated: the tag handler of every DIE is entered at most once.
C13_VisitedOnce ==
    \A d \in 1..Len(dies) : Dispatches(d) <= 1

\* C13: the tag handler of a DIE for which an object is recorded has been
\* entered exactly once; every later visit of it returned without
\* dispatching.
C13_RecordedVisitedOnce ==
    \A d \in 1..Len(dies) : objects[d] # 0 => Dispatches(d) = 1

\* The declaration D was visited from its definition F and from the walk
\* over the children of A, which made it a member, and dispatched once.
C13_Witness ==
    /\ error = NoError
    /\ objects[6] # 0 /\ objects[7] # 0 /\ objects[10] # 0
    /\ \E line \in DOMAIN heap[objects[6]].members :
          \E i \in 1..Len(heap[objects[6]].members[line]) :
              heap[objects[6]].members[line][i] = objects[7]
    /\ Dispatches(7) = 1

\* The first n of the items reduced from left to right as the claim C14
\* words it: each item is merged into the last accepted one, and when that
\* merge fails it is appended unless an equal item is already accepted.
RECURSIVE MergedThenAppended(_, _, _)
MergedThenAppended(h, items, n) ==
    IF n = 0
    THEN [heap |-> h, result |-> <<>>]
    ELSE LET r == MergedThenAppended(h, items, n - 1)
             item == items[n]
             m == Merge(r.heap, r.result[Len(r.result)], item)
         IN  IF r.result = <<>>
             THEN [heap |-> r.heap, result |-> <<item>>]
             ELSE IF m.ok
             THEN [heap |-> m.heap, result |-> r.result]
             ELSE IF In(r.heap, item, r.result)
             THEN r
             ELSE [heap |-> r.heap, result |-> Append(r.result, item)]

\* The first n of the items reduced from left to right: an item equal to an
\* accepted one is dropped; any other is merged into the last accepted one,
\* and appended when that merge fails.
RECURSIVE DroppedOrMerged(_, _, _)
DroppedOrMerged(h, items, n) ==
    IF n = 0
    THEN [heap |-> h, result |-> <<>>]
    ELSE LET r == DroppedOrMerged(h, items, n - 1)
             item == items[n]
             m == Merge(r.heap, r.result[Len(r.result)], item)
         IN  IF r.result = <<>>
             THEN [heap |-> r.heap, result |-> <<item>>]
             ELSE IF In(r.heap, item, r.result)
             THEN r
             ELSE IF m.ok
             THEN [heap |-> m.heap, result |-> r.result]
             ELSE [heap |-> r.heap, result |-> Append(r.result, item)]

\* The types of a direct call agree in kind, name and base list.
HeadersMatch ==
    /\ pre[1].kind = pre[2].kind
    /\ pre[1].name = pre[2].name
    /\ pre[1].bases = pre[2].bases

\* The members list of line l before the call, empty when the line is
\* absent.
MembersBefore(o, l) ==
    IF l \in DOMAIN pre[o].members THEN pre[o].members[l] ELSE <<>>

\* C14 as stated: on success the members of every line of other are the
\* reduction of self's list followed by other's in which each member is first
\* merged into the previously accepted one.
C14_MergeThenAppend ==
    (pc = "returned" /\ ret) =>
        \A l \in DOMAIN pre[2].members :
            LET r == MergedThenAppended(pre,
                        MembersBefore(1, l) \o MembersBefore(2, l),
                        Len(MembersBefore(1, l)) + Len(MembersBefore(2, l)))
            IN  /\ heap[1].members[l] = r.result
                /\ \A i \in 1..Len(r.result) :
                      heap[r.result[i]] = r.heap[r.result[i]]

\* C14: Struct.merge returns True exactly when kind, name and base list
\* match, and changes nothing otherwise; on success the members of every
\* line of other are the reduction of self's list followed by other's in
\* which a member equal to an accepted one is dropped and any other is merged
\* into the previously accepted member or, failing that, appended; the lines
\* absent from other keep their lists; alignment is self's when set and
\* other's otherwise.
C14_StructMerge ==
    pc = "returned" =>
        /\ ret = HeadersMatch
        /\ ~ret => heap = pre
        /\ ret =>
            /\ \A l \in DOMAIN pre[2].members :
                  LET r == DroppedOrMerged(pre,
                              MembersBefore(1, l) \o MembersBefore(2, l),
                              Len(MembersBefore(1, l))
                                + Len(MembersBefore(2, l)))
                  IN  /\ heap[1].members[l] = r.result
                      /\ \A i \in 1..Len(r.result) :
                            heap[r.result[i]] = r.heap[r.result[i]]
            /\ \A l \in DOMAIN pre[1].members \ DOMAIN pre[2].members :
                  heap[1].members[l] = pre[1].members[l]
            /\ heap[1].alignment = IF pre[1].alignment # None
                                   THEN pre[1].alignment
                                   ELSE pre[2].alignment

\* A successful merge in which other's member is equal to self's first
\* member and could be merged into self's last: it is dropped, and self's
\* last member stays as it was.
C14_Witness ==
    /\ pc = "returned"
    /\ ret
    /\ Len(pre[1].members[2]) = 3
    /\ Len(pre[2].members[2]) = 1
    /\ ObjEq(pre, pre[1].members[2][1], pre[2].members[2][1])
    /\ ~ObjEq(pre, pre[1].members[2][3], pre[2].members[2][1])
    /\ Merge(pre, pre[1].members[2][3], pre[2].members[2][1]).ok
    /\ heap[1].members[2] = pre[1].members[2]
    /\ heap[pre[1].members[2][3]] = pre[pre[1].members[2][3]]

\* The calls i and j register instantiations of the same templated
\* declaration under the same key and line: Templates with equal name, equal
\* declaration and pairwise equal parameter name, kind and type.
SameTemplated(i, j) ==
    LET x == heap[requests[i].template]
        y == heap[requests[j].template]
    IN  /\ requests[i].key = requests[j].key
        /\ requests[i].lineno = requests[j].lineno
        /\ x.name = y.name
        /\ ~DeclarationsDiffer(heap, x.declaration, y.declaration)
        /\ Len(x.parameters) = Len(y.parameters)
        /\ \A k \in 1..Len(x.parameters) :
              /\ x.parameters[k].name = y.parameters[k].name
              /\ x.parameters[k].kind = y.parameters[k].kind
              /\ x.parameters[k].type = y.parameters[k].type

\* C15: every call of _register_template returns, and it returns a Template
\* only when no earlier call registered an instantiation of the same
\* templated declaration under the same key and line.
C15_OnlyFirstRegistered ==
    /\ error = NoError
    /\ \A j \in 1..Len(registered) :
          registered[j] # 0 => \A i \in 1..(j - 1) : ~SameTemplated(i, j)

\* The member Functions of the types built so far, each with its type: pairs
\* <<s, m>> where m is a Function in a members bucket of s.
MemberFunctions ==
    {sm \in (1..Len(heap)) \X (1..Len(heap)) :
        /\ heap[sm[1]].kind \in StructKinds
        /\ heap[sm[2]].kind = "function"
        /\ \E line \in DOMAIN heap[sm[1]].members :
              \E i \in 1..Len(heap[sm[1]].members[line]) :
                  heap[sm[1]].members[line][i] = sm[2]}

\* C16: every member Function of a class whose DIE short name starts with
\* "operator ", or whose short name without template arguments is the
\* class's name without template arguments or '~' followed by it, has no
\* returns.
C16_NoReturnType ==
    \A sm \in MemberFunctions :
        LET short_name == dies[heap[sm[2]].die].short_name
            class == heap[sm[1]].name
        IN  (\/ StartsWith(short_name, "operator ")
             \/ /\ class # None
                /\ \/ BeforeAngle(short_name) = BeforeAngle(class)
                   \/ BeforeAngle(short_name) = "~" \o BeforeAngle(class))
                => heap[sm[2]].returns = None

\* The class A<int> holds its destructor ~A and a constructor template
\* A<char> without returns, and the member operator== with its return type.
C16_Witness ==
    \E s \in 1..Len(heap) :
        /\ heap[s].kind \in StructKinds
        /\ heap[s].name = "A<int>"
        /\ \E m \in 1..Len(heap) :
              /\ <<s, m>> \in MemberFunctions
              /\ dies[heap[m].die].short_name = "~A"
              /\ heap[m].returns = None
        /\ \E m \in 1..Len(heap) :
              /\ <<s, m>> \in MemberFunctions
              /\ dies[heap[m].die].short_name = "A<char>"
              /\ heap[m].returns = None
        /\ \E m \in 1..Len(heap) :
              /\ <<s, m>> \in MemberFunctions
              /\ dies[heap[m].die].short_name = "operator=="
              /\ heap[m].returns = "bool"

\* C17: every Function built from a subprogram has is_const exactly when the
\* type chain of the subprogram's object pointer reaches a const type, and
\* is_static when the subprogram has no object pointer.
C17_ConstAndStatic ==
    \A d \in 1..Len(dies) :
        (dies[d].tag = "subprogram" /\ objects[d] # 0) =>
            /\ heap[objects[d]].is_const = (dies[d].object_pointer = "const")
            /\ dies[d].object_pointer = "absent" => heap[objects[d]].is_static

\* The object o is settled: the handler of its DIE has returned and so has
\* the handler of the DIE's parent, whose loop collects the children.
Settled(o) ==
    /\ heap[o].die # 0
    /\ objects[heap[o].die] = o
    /\ \E i \in 1..Len(visitLog) : visitLog[i] = dies[heap[o].die].parent

\* The object y is the object x but for the flags a definition sets on its
\* declaration: is_static and is_const, which are only ever set.
SameButStaticConst(x, y) ==
    \/ y = x
    \/ /\ x.kind = "function"
       /\ y = [x EXCEPT !.is_static = y.is_static, !.is_const = y.is_const]
       /\ x.is_static => y.is_static
       /\ x.is_const => y.is_const

\* The object y is the object x but for parameter names that x lacks.
SameButNames(x, y) ==
    \/ y = x
    \/ /\ x.kind = "function"
       /\ y = [x EXCEPT !.parameters = y.parameters]
       /\ Len(y.parameters) = Len(x.parameters)
       /\ \A i \in 1..Len(x.parameters) :
             \/ y.parameters[i] = x.parameters[i]
             \/ /\ x.parameters[i].name = None
                /\ y.parameters[i] =
                       [x.parameters[i] EXCEPT !.name = y.parameters[i].name]

\* The object y is the object x but for what a merge changes: a Function's
\* parameter names, flags and virtuality, an Attribute's default value,
\* alignment, bit size and is_static, a type's members and alignment.
SameButMerged(x, y) ==
    \/ y = x
    \/ /\ x.kind = "function"
       /\ y = [x EXCEPT !.parameters = y.parameters, !.noreturn = y.noreturn,
                        !.is_explicit = y.is_explicit,
                        !.is_deleted = y.is_deleted,
                        !.is_inline = y.is_inline, !.is_static = y.is_static,
                        !.is_const = y.is_const, !.virtuality = y.virtuality]
    \/ /\ x.kind = "attribute"
       /\ y = [x EXCEPT !.default_value = y.default_value,
                        !.alignment = y.alignment, !.bit_size = y.bit_size,
                        !.is_static = y.is_static]
    \/ /\ x.kind \in StructKinds
       /\ y = [x EXCEPT !.members = y.members, !.alignment = y.alignment]

FiledInto(p, d) ==
    /\ objects[p] # 0 /\ objects[d] # 0
    /\ \E i \in 1..Len(dies[p].children) : dies[p].children[i] = d
    /\ dies[d].decl_line # 0
    /\ IF dies[p].tag = "namespace"
       THEN /\ dies[d].tag \in FiledTags
            /\ Truthy(dies[d].decl_file)
            /\ StartsWith(NormPath(Slashes(dies[d].decl_file)), BaseDir)
       ELSE /\ dies[p].tag \in StructTags
            /\ LET bucket == heap[objects[p]].members[dies[d].decl_line]
               IN  \E i \in 1..Len(bucket) : bucket[i] = objects[d]

Wrapped ==
    {d \in 1..Len(dies) :
        /\ dies[d].tag \in StructTags
        /\ ChildrenTagged(d, TemplateParameterTags) # <<>>
        /\ objects[d] # 0
        /\ heap[objects[d]].template # 0}

\* The objects of the children of the DIE d that _handle_struct accepts as
\* members, in order.
MembersOf(d) ==
    LET accepted == SelectSeq(dies[d].children,
                              LAMBDA c : dies[c].tag \in MemberTags
                                           /\ dies[c].decl_line # 0
                                           /\ objects[c] # 0)
    IN  [i \in 1..Len(accepted) |-> objects[accepted[i]]]

\* C21: the declaration of the Template attached to a type with template
\* parameters is a declaration without bases, members and alignment, named
\* by the type's name before the first "<"; the type itself keeps its name,
\* the bases and members its children gave it, its alignment and
\* is_declaration = false.
C21_TemplateDeclaration ==
    \A d \in Wrapped :
        LET struct == heap[objects[d]]
            declaration == heap[heap[struct.template].declaration]
            bases == ChildrenTagged(d, {"inheritance"})
        IN  /\ heap[struct.template].kind = "template"
            /\ heap[struct.template].declaration # objects[d]
            /\ declaration.is_declaration
            /\ declaration.bases = <<>>
            /\ declaration.members = EmptyMap
            /\ declaration.alignment = None
            /\ declaration.name = BeforeAngle(dies[d].short_name)
            /\ declaration.kind = struct.kind
            /\ struct.name = dies[d].short_name
            /\ ~struct.is_declaration
            /\ struct.alignment = dies[d].alignment
            /\ Len(struct.bases) = Len(bases)
            /\ \A i \in 1..Len(bases) : struct.bases[i][1] = dies[bases[i]].type
            /\ MembersOf(d) # <<>> =>
                   /\ DOMAIN struct.members = {2}
                   /\ struct.members[2] = MembersOf(d)

\* A templated type with alignment, a base and two members got its wrapper.
C21_Witness ==
    /\ 6 \in Wrapped
    /\ dies[6].short_name = "A<B<int> >"
    /\ heap[objects[6]].alignment = "8"
    /\ Len(heap[objects[6]].bases) = 1
    /\ Len(MembersOf(6)) = 2

\* The tags Visitor has a visit_ method for.
HandledTags ==
    {"compile_unit", "type_unit", "namespace", "typedef", "class_type",
     "enumeration_type", "union_type", "structure_type", "variable",
     "member", "subprogram", "imported_module", "imported_declaration"}
        \cup TemplateParameterTags

\* The DIE d has been visited, or it is a child of a visited unit or
\* namespace.
Reached(d) ==
    \/ \E i \in 1..Len(visitLog) : visitLog[i] = d
    \/ /\ dies[d].parent # 0
       /\ dies[dies[d].parent].tag \in {"compile_unit", "type_unit", "namespace"}
       /\ \E i \in 1..Len(visitLog) : visitLog[i] = dies[d].parent

\* The DIEs without a handler that the traversal has reached.
ReachedUnhandled ==
    {d \in 1..Len(dies) : dies[d].tag \notin HandledTags /\ Reached(d)}

\* C22: a traversal that ends without a fatal error has reached no DIE
\* without a handler but on the list of ignored tags, and has visited none
\* of its children; a traversal that ends with "Unhandled child tag" has
\* reached a DIE without a handler that is not on the list.
C22_IgnoredOrFatal ==
    /\ pc \in {"files", "done"} =>
          \A d \in ReachedUnhandled :
              /\ dies[d].tag \in IgnoredUnitTags
              /\ \A i \in 1..Len(dies[d].children) :
                    /\ objects[dies[d].children[i]] = 0
                    /\ \A j \in 1..Len(visitLog) :
                          visitLog[j] # dies[d].children[i]
    /\ (pc = "error" /\ error = "ValueError") =>
          \E d \in ReachedUnhandled : dies[d].tag \notin IgnoredUnitTags

\* C23: once a file has been yielded, no fatal error has occurred, every
\* type unit and every compile unit under base_dir has been visited, no
\* unit is left to visit and the back-fill has nothing left to fill; after
\* a fatal error no file has been yielded.
C23_YieldAfterTraversal ==
    /\ yielded # <<>> =>
          /\ pc \in {"files", "done"}
          /\ error = NoError
          /\ tu > Len(type_units)
          /\ cu > Len(compile_units)
          /\ \A i \in 1..Len(type_units) :
                \E j \in 1..Len(visitLog) : visitLog[j] = type_units[i]
          /\ \A i \in 1..Len(compile_units) :
                Eligible(compile_units[i]) =>
                    \E j \in 1..Len(visitLog) : visitLog[j] = compile_units[i]
          /\ BackFillFrom(heap, 1, 1) = heap
    /\ (pc = "error" \/ error # NoError) => yielded = <<>>

\* Two files have been yielded after the visit of the type unit and of two
\* compile units under base_dir, and the back-fill gave the declaration D
\* the name of the definition's parameter.
C23_Witness ==
    /\ Len(yielded) >= 2
    /\ Eligible(compile_units[1]) /\ Eligible(compile_units[2])
    /\ objects[7] # 0
    /\ dies[7].params[1].name = None
    /\ heap[objects[7]].parameters[1].name # None

\* C24: after a merge call that returned False, self, other and every
\* object they hold are what they were before the call.
C24_FailedMergeChangesNothing ==
    (pc = "returned" /\ ~ret) => heap = pre

\* A merge of two Templates of one declaration failed on the second of two
\* parameters, after a first parameter whose default the merge would fill.
C24_Witness ==
    /\ pc = "returned" /\ ~ret
    /\ pre[1].kind = "template" /\ pre[2].kind = "template"
    /\ pre[1].declaration = 5 /\ pre[2].declaration = 5
    /\ Len(pre[1].parameters) = 2 /\ Len(pre[2].parameters) = 2
    /\ pre[1].parameters[1] = TemplateParameter("T", "type", None, None)
    /\ pre[2].parameters[1] =
           [TemplateParameter("T", "type", None, None) EXCEPT !.default = "int"]
    /\ pre[1].parameters[2].name # pre[2].parameters[2].name

\* The types of the heap.
Structs == {s \in 1..Len(heap) : heap[s].kind \in StructKinds}

\* The objects the type s holds in its members.
Held(s) ==
    UNION {{heap[s].members[l][i] : i \in 1..Len(heap[s].members[l])} :
              l \in DOMAIN heap[s].members}

\* C25 as stated: in every state, every member a type holds has that type
\* as its parent.
C25_MembersParent ==
    \A s \in Structs : \A o \in Held(s) : heap[o].parent = s

\* C25: until the files are assembled every member a type holds has that
\* type as its parent; afterwards its parent is that type or a type of the
\* same kind, name and bases, from which Struct.merge moved it.
C25_MembersParentOrMerged ==
    \A s \in Structs : \A o \in Held(s) :
        LET p == heap[o].parent
        IN  /\ p \in Structs
            /\ heap[p].kind = heap[s].kind
            /\ heap[p].name = heap[s].name
            /\ heap[p].bases = heap[s].bases
            /\ pc \notin {"files", "done"} => p = s

\* The files are assembled and the first description of A holds a member
\* of the second, whose parent the second description still is.
C25_Witness ==
    /\ pc = "done"
    /\ objects[6] # 0 /\ objects[7] # 0
    /\ \E o \in Held(objects[6]) : heap[o].parent = objects[7]

\* The (name, is_inline) pairs of a chain.
Looks(chain) ==
    [k \in 1..Len(chain) |-> <<heap[chain[k]].name, heap[chain[k]].is_inline>>]

\* The length of the longest common prefix of prev and curr by
\* (name, is_inline).
Common ==
    Pick({i \in 0..Len(prev) :
            /\ i <= Len(curr)
            /\ SubSeq(Looks(prev), 1, i) = SubSeq(Looks(curr), 1, i)
            /\ \/ i = Len(prev)
               \/ i = Len(curr)
               \/ Looks(prev)[i + 1] # Looks(curr)[i + 1]})

\* C26: the actions do_ns_actions returns are the closes of prev[i:],
\* innermost first, then the opens of curr[i:], outermost first, i being the
\* length of the longest common prefix by (name, is_inline); no namespace of
\* the common prefix is closed or opened; each close applied ends the
\* innermost open namespace, and once all are applied the open namespaces
\* are a chain equal to curr by (name, is_inline).
C26_NamespaceActions ==
    fpc \in {"apply", "done"} =>
        LET i == Common
            nclose == Len(prev) - i
            nopen == Len(curr) - i
        IN  /\ Len(actions) = nclose + nopen
            /\ \A k \in 1..nclose :
                actions[k] = [kind |-> "close",
                              namespace |-> prev[Len(prev) + 1 - k]]
            /\ \A k \in 1..nopen :
                actions[nclose + k] = [kind |-> "open",
                                       namespace |-> curr[i + k]]
            /\ \A k \in 1..Len(actions), j \in 1..i :
                actions[k].namespace \notin {prev[j], curr[j]}
            /\ (applied < Len(actions) /\ actions[applied + 1].kind = "close")
                   => /\ stack # <<>>
                      /\ stack[Len(stack)] = actions[applied + 1].namespace
            /\ SubSeq(stack, 1, i) = SubSeq(prev, 1, i)
            /\ fpc = "done" => Looks(stack) = Looks(curr)

\* All actions are applied; the chains share a first namespace by
\* (name, is_inline) that is not the same object, one namespace was closed
\* and one opened.
C26_Witness ==
    /\ fpc = "done"
    /\ Common = 1
    /\ prev[1] # curr[1]
    /\ Len(prev) = 2
    /\ Len(curr) = 2
    /\ applied = 2

\* How often the handler of the DIE d was entered.
Entered(d) == Cardinality({i \in 1..Len(visitLog) : visitLog[i] = d})

\* C27: the assertion of _set never fails, for the handler of a DIE that is
\* cached was entered once only; and a key that is cached maps to the same
\* object in every later state: no entry is removed or replaced.
C27_CacheStable ==
    /\ [](error # "AssertionError")
    /\ [](\A d \in DOMAIN objects : objects[d] # 0 => Entered(d) = 1)
    /\ [][\A d \in DOMAIN objects :
            objects[d] # 0 => /\ d \in DOMAIN objects'
                              /\ objects'[d] = objects[d]]_vars

\* The declaration D was visited through the specification of its
\* definition F and cached; the type A, visited later, listed it as a child.
C27_Witness ==
    /\ pc = "done"
    /\ objects[6] # 0 /\ objects[7] # 0 /\ objects[10] # 0
    /\ dies[6].children[1] = 7
    /\ \E i \in 1..Len(visitLog), j \in 1..Len(visitLog) :
        i < j /\ visitLog[i] = 7 /\ visitLog[j] = 6

\* C28: every Function registered under a key has exactly as many
\* parameters as the name list recorded for the key; neither the assertion
\* "Parameter count mismatch" nor the back-fill's index fails.
C28_CountsMatch ==
    /\ error \notin {"AssertionError", "IndexError"}
    /\ \A k \in 1..Len(param_names) :
        \A j \in 1..Len(functions[param_names[k].key]) :
            Len(heap[functions[param_names[k].key][j]].parameters)
                = Len(param_names[k].names)

====
